---- MODULE Spec2Model ----
(***************************************************************************)
(* Record reconciliation engine of CSV_Email_Prep.py: the email validator, *)
(* the name parser and merge_and_clean_csv, the fold of an incoming        *)
(* customer table into an authoritative one keyed by lower-cased email.    *)
(*                                                                         *)
(* A Python str is a sequence with one element for each character, so     *)
(* that lower-casing, splitting, validation and the substring tests on     *)
(* Notes are computed the way the code computes them.  A csv row (a dict)  *)
(* is a function from field names to such strings; a field the dict lacks  *)
(* is outside its DOMAIN.                                                  *)
(***************************************************************************)
EXTENDS Integers, Sequences, FiniteSets, TLC

(***************************************************************************)
(* Characters.  A character of ASCII is the string of that character; a    *)
(* character above 0x7f is written by its code point, "U+00E9" for U+00E9. *)
(* The alphabet of the model is ASCII, the Latin-1 supplement (U+0080 to   *)
(* U+00FF), the whitespace of Unicode, the Kelvin sign U+212A, and the     *)
(* characters that lower(), upper() and title() make of these: U+0178,     *)
(* U+039C, U+03BC.  On this alphabet the classes and the case mappings are *)
(* those of Python 3; a character of the alphabet that no definition names *)
(* is in no class and is its own lower, upper and title case.              *)
(***************************************************************************)
\* a-z and A-Z, the letters of the pattern of is_valid_email
Lowers == <<"a","b","c","d","e","f","g","h","i","j","k","l","m",
            "n","o","p","q","r","s","t","u","v","w","x","y","z">>
Uppers == <<"A","B","C","D","E","F","G","H","I","J","K","L","M",
            "N","O","P","Q","R","S","T","U","V","W","X","Y","Z">>
LowerSet == {Lowers[i] : i \in DOMAIN Lowers}
UpperSet == {Uppers[i] : i \in DOMAIN Uppers}
Alpha == LowerSet \cup UpperSet
\* 0-9, the digits of the pattern of is_valid_email
AsciiDigits == {"0","1","2","3","4","5","6","7","8","9"}

\* the letters above 0x7f that lower() changes into another such letter, and
\* what it changes them into, place by place; upper() maps them back
HighUppers == <<"U+00C0", "U+00C1", "U+00C2", "U+00C3", "U+00C4", "U+00C5",
              "U+00C6", "U+00C7", "U+00C8", "U+00C9", "U+00CA", "U+00CB",
              "U+00CC", "U+00CD", "U+00CE", "U+00CF", "U+00D0", "U+00D1",
              "U+00D2", "U+00D3", "U+00D4", "U+00D5", "U+00D6", "U+00D8",
              "U+00D9", "U+00DA", "U+00DB", "U+00DC", "U+00DD", "U+00DE",
              "U+0178", "U+039C">>
HighLowers == <<"U+00E0", "U+00E1", "U+00E2", "U+00E3", "U+00E4", "U+00E5",
              "U+00E6", "U+00E7", "U+00E8", "U+00E9", "U+00EA", "U+00EB",
              "U+00EC", "U+00ED", "U+00EE", "U+00EF", "U+00F0", "U+00F1",
              "U+00F2", "U+00F3", "U+00F4", "U+00F5", "U+00F6", "U+00F8",
              "U+00F9", "U+00FA", "U+00FB", "U+00FC", "U+00FD", "U+00FE",
              "U+00FF", "U+03BC">>
HighUpperSet == {HighUppers[i] : i \in DOMAIN HighUppers}
HighLowerSet == {HighLowers[i] : i \in DOMAIN HighLowers}
\* the Kelvin sign, whose lower() is k; the micro sign, whose upper() is the
\* Greek capital mu; the sharp s, whose upper() is SS and whose title() is Ss
KELVIN == "U+212A"
MICRO == "U+00B5"
SHARP_S == "U+00DF"
\* the other characters above 0x7f that are cased: the ordinal indicators
CasedOthers == {"U+00AA", "U+00BA"}
\* the characters str.title() takes for cased
Cased ==
    Alpha \cup HighUpperSet \cup HighLowerSet \cup CasedOthers
    \cup {KELVIN, MICRO, SHARP_S}
\* char.isdigit(): 0-9 and the superscripts two, three and one
Digits == AsciiDigits \cup {"U+00B2", "U+00B3", "U+00B9"}
\* \s of the re module and the characters str.strip()/str.split() remove:
\* space, tab, line feed, carriage return, form feed, the five control
\* characters written here as they are: vertical tab (0x0b) and the file,
\* group, record and unit separators (0x1c, 0x1d, 0x1e, 0x1f), and the
\* whitespace above 0x7f
VT == ""
FS == ""
GS == ""
RS == ""
US == ""
HighWhitespace ==
    {"U+0085", "U+00A0", "U+1680", "U+2000", "U+2001", "U+2002",
     "U+2003", "U+2004", "U+2005", "U+2006", "U+2007", "U+2008",
     "U+2009", "U+200A", "U+2028", "U+2029", "U+202F", "U+205F",
     "U+3000"}
Whitespace == {" ", "\t", "\n", "\r", "\f", VT, FS, GS, RS, US} \cup HighWhitespace
\* \w of the re module: the letters and the numbers, and the underscore
WordChars ==
    Alpha \cup Digits \cup {"_"} \cup HighUpperSet \cup HighLowerSet
    \cup CasedOthers \cup {KELVIN, MICRO, SHARP_S}
    \cup {"U+00BC", "U+00BD", "U+00BE"}

\* str.lower(), one character
LowerChar(c) ==
    IF c \in UpperSet THEN Lowers[CHOOSE i \in DOMAIN Uppers : Uppers[i] = c]
    ELSE IF c \in HighUpperSet
    THEN HighLowers[CHOOSE i \in DOMAIN HighUppers : HighUppers[i] = c]
    ELSE IF c = KELVIN THEN "k"
    ELSE c
\* str.upper(), one character other than the sharp s
UpperChar(c) ==
    IF c \in LowerSet THEN Uppers[CHOOSE i \in DOMAIN Lowers : Lowers[i] = c]
    ELSE IF c \in HighLowerSet
    THEN HighUppers[CHOOSE i \in DOMAIN HighLowers : HighLowers[i] = c]
    ELSE IF c = MICRO THEN "U+039C"
    ELSE c
\* str.upper() and the title case of one character, as strings
UpperString(c) == IF c = SHARP_S THEN <<"S", "S">> ELSE <<UpperChar(c)>>
TitleString(c) == IF c = SHARP_S THEN <<"S", "s">> ELSE <<UpperChar(c)>>
\* the strings of a sequence one after the other
RECURSIVE Flat(_)
Flat(strings) ==
    IF strings = <<>> THEN <<>> ELSE Head(strings) \o Flat(Tail(strings))
\* str.lower()
lower(s) == [i \in DOMAIN s |-> LowerChar(s[i])]
\* str.upper()
upper(s) == Flat([i \in DOMAIN s |-> UpperString(s[i])])

\* `t in s` for two strings
Contains(s, t) ==
    \E i \in 1..(Len(s) - Len(t) + 1) : SubSeq(s, i, i + Len(t) - 1) = t

\* the least and the greatest element of a non-empty set of positions
Min(S) == CHOOSE i \in S : \A j \in S : i <= j
Max(S) == CHOOSE i \in S : \A j \in S : i >= j

\* the positions of s that hold a character of class cls
Positions(s, cls) == {i \in DOMAIN s : s[i] \in cls}

\* s from the first to the last of the positions in keep
Between(s, keep) == IF keep = {} THEN <<>> ELSE SubSeq(s, Min(keep), Max(keep))

\* str.strip()
strip(s) == Between(s, {i \in DOMAIN s : s[i] \notin Whitespace})

\* s cut at position p: the part before it, the part after it
Before(s, p) == SubSeq(s, 1, p - 1)
After(s, p) == SubSeq(s, p + 1, Len(s))

\* str.split(sep) for a one-character separator: the pieces between separators,
\* empty pieces included
RECURSIVE SplitOn(_, _)
SplitAt(s, sep, hits) ==
    IF hits = {} THEN <<s>>
    ELSE <<Before(s, Min(hits))>> \o SplitOn(After(s, Min(hits)), sep)
SplitOn(s, sep) == SplitAt(s, sep, Positions(s, {sep}))

\* str.split() with no separator: the maximal runs of non-whitespace
RECURSIVE SplitWords(_)
SplitStripped(t, ws) ==
    IF t = <<>> THEN <<>>
    ELSE IF ws = {} THEN <<t>>
    ELSE <<Before(t, Min(ws))>> \o SplitWords(After(t, Min(ws)))
SplitWords(s) == SplitStripped(strip(s), Positions(strip(s), Whitespace))

\* sep.join(parts)
RECURSIVE Join(_, _)
Join(parts, sep) ==
    IF parts = <<>> THEN <<>>
    ELSE IF Len(parts) = 1 THEN parts[1]
    ELSE parts[1] \o sep \o Join(Tail(parts), sep)

\* str.title(): a character is lower-cased when the character before it is
\* cased and put in title case when it is not
title(s) ==
    Flat([i \in DOMAIN s |->
             IF i > 1 /\ s[i - 1] \in Cased THEN <<LowerChar(s[i])>>
             ELSE TitleString(s[i])])

(***************************************************************************)
(* EmailValidator                                                          *)
(***************************************************************************)
\* the character classes of the pattern of is_valid_email
LocalChars == Alpha \cup AsciiDigits \cup {".", "_", "%", "+", "-"}
DomainChars == Alpha \cup AsciiDigits \cup {".", "-"}

\* s matches [a-zA-Z0-9._%+-]+@[a-zA-Z0-9.-]+\.[a-zA-Z]{2,} from its first to
\* its last character
FullMatch(s) ==
    \E p \in DOMAIN s : \E q \in DOMAIN s :
        /\ s[p] = "@" /\ s[q] = "."
        /\ p >= 2 /\ q >= p + 2 /\ Len(s) >= q + 2
        /\ \A i \in 1..(p - 1) : s[i] \in LocalChars
        /\ \A i \in (p + 1)..(q - 1) : s[i] \in DomainChars
        /\ \A i \in (q + 1)..Len(s) : s[i] \in Alpha

\* re.match(pattern, email): the pattern's $ matches at the end of the string
\* and also just before a newline that ends it
is_valid_email(email) ==
    \/ FullMatch(email)
    \/ /\ email # <<>>
       /\ email[Len(email)] = "\n"
       /\ FullMatch(SubSeq(email, 1, Len(email) - 1))

\* the separators of split_emails: [;,\s/]
Separators == {";", ",", "/"} \cup Whitespace

\* re.sub(r'[;,\s/]+', ',', email_str): every run of separators becomes one comma
RECURSIVE NormalizeSeparators(_)
NormalizeSeparators(s) ==
    IF s = <<>> THEN <<>>
    ELSE IF s[1] \in Separators
         THEN IF Len(s) >= 2 /\ s[2] \in Separators
              THEN NormalizeSeparators(Tail(s))
              ELSE <<",">> \o NormalizeSeparators(Tail(s))
         ELSE <<s[1]>> \o NormalizeSeparators(Tail(s))

\* [email.strip() for email in raw if email.strip()]
StrippedParts(raw) ==
    SelectSeq([i \in DOMAIN raw |-> strip(raw[i])], LAMBDA x : x # <<>>)

\* email_parts of split_emails
EmailParts(email_str) == StrippedParts(SplitOn(NormalizeSeparators(email_str), ","))

\* mutant: an address that occurs again in the string is returned once
RECURSIVE WithoutRepeats(_)
WithoutRepeats(s) ==
    IF s = <<>> THEN <<>>
    ELSE IF \E j \in 1..(Len(s) - 1) : s[j] = s[Len(s)]
         THEN WithoutRepeats(SubSeq(s, 1, Len(s) - 1))
         ELSE Append(WithoutRepeats(SubSeq(s, 1, Len(s) - 1)), s[Len(s)])
ClassifiedPartsDistinct(parts) ==
    [valid_emails |-> WithoutRepeats(SelectSeq(parts, is_valid_email)),
     has_invalid  |-> \E i \in DOMAIN parts : ~is_valid_email(parts[i])]

\* the loop of split_emails over email_parts: (valid_emails, has_invalid)
ClassifiedParts(parts) ==
    [valid_emails |-> SelectSeq(parts, is_valid_email),
     has_invalid  |-> \E i \in DOMAIN parts : ~is_valid_email(parts[i])]

\* split_emails: (valid_emails, has_invalid)
split_emails(email_str) ==
    IF email_str = <<>> THEN [valid_emails |-> <<>>, has_invalid |-> FALSE]
    ELSE ClassifiedParts(EmailParts(email_str))

(***************************************************************************)
(* NameParser                                                              *)
(***************************************************************************)
\* mutant: 'XX' in word, without word.upper()
KeptWordAsWritten(word) ==
    /\ ~Contains(word, <<"X", "X">>)
    /\ \A i \in DOMAIN word : word[i] \notin Digits

\* the test of clean_name_part on one word: no XX (any case), no digit
KeptWord(word) ==
    /\ ~Contains(upper(word), <<"X", "X">>)
    /\ \A i \in DOMAIN word : word[i] \notin Digits

\* clean_name_part: drop the words with XX or with a digit
clean_name_part(name_part) ==
    IF name_part = <<>> THEN name_part
    ELSE Join(SelectSeq(SplitWords(name_part), KeptWord), <<" ">>)

\* name.rfind(', '), as a 1-based position, 0 when there is none
LastOrZero(hits) == IF hits = {} THEN 0 ELSE Max(hits)
\* mutant: name.find(', '), the first ", "
FindCommaSpace(name) ==
    IF \E i \in 1..(Len(name) - 1) : name[i] = "," /\ name[i + 1] = " "
    THEN Min({i \in 1..(Len(name) - 1) : name[i] = "," /\ name[i + 1] = " "})
    ELSE 0

RFindCommaSpace(name) ==
    LastOrZero({i \in 1..(Len(name) - 1) : name[i] = "," /\ name[i + 1] = " "})

\* (\w+)\s*\((\w+)\) matches s from position i, with its parentheses at
\* positions k and m
NicknameAt(s, i, k, m) ==
    /\ i < k /\ k + 1 < m
    /\ s[k] = "(" /\ s[m] = ")"
    /\ \E j \in i..(k - 1) :
          /\ \A x \in i..j : s[x] \in WordChars
          /\ \A x \in (j + 1)..(k - 1) : s[x] \in Whitespace
    /\ \A x \in (k + 1)..(m - 1) : s[x] \in WordChars

\* the match object: where it starts, group 2, and where its closing
\* parenthesis is; start = 0 stands for no match
MatchObject(s, t) ==
    [start |-> t[1], nickname |-> SubSeq(s, t[2] + 1, t[3] - 1), end |-> t[3]]
LeftmostMatch(s, hits) ==
    IF hits = {} THEN [start |-> 0, nickname |-> <<>>, end |-> 0]
    ELSE MatchObject(s, CHOOSE t \in hits : \A u \in hits : t[1] <= u[1])

\* re.search(r'(\w+)\s*\((\w+)\)', s): the leftmost match
NicknameSearch(s) ==
    LeftmostMatch(s, {t \in (DOMAIN s) \X (DOMAIN s) \X (DOMAIN s) :
                         NicknameAt(s, t[1], t[2], t[3])})

\* nickname, then the text after the closing parenthesis
NicknameAndRemainder(nickname, remainder) ==
    IF remainder # <<>> THEN nickname \o <<" ">> \o remainder ELSE nickname
NicknameFirstName(s, match) ==
    NicknameAndRemainder(match.nickname, strip(After(s, match.end)))

\* the first name of the branch with a comma
CommaFirstName(first_name, match) ==
    IF match.start # 0 THEN NicknameFirstName(first_name, match) ELSE first_name

\* the cleaning and capitalizing that ends split_name
CleanTitle(part) == title(clean_name_part(part))

\* the branch of split_name for a name with ', '
CommaNames(last_name, first_name) ==
    << CleanTitle(last_name),
       CleanTitle(CommaFirstName(first_name, NicknameSearch(first_name))) >>

\* the branch of split_name for a name without ', '
NoCommaNames(name, match) ==
    IF match.start # 0
    THEN << CleanTitle(strip(Before(name, match.start))),
            CleanTitle(NicknameFirstName(name, match)) >>
    ELSE << CleanTitle(strip(name)), <<>> >>

SplitAtComma(name, last_comma_index) ==
    IF last_comma_index # 0
    THEN CommaNames(strip(Before(name, last_comma_index)),
                    strip(After(name, last_comma_index + 1)))
    ELSE NoCommaNames(name, NicknameSearch(name))

\* split_name: <<last_name, first_name>>
split_name(name) ==
    IF name = <<>> THEN << <<>>, <<>> >>
    ELSE SplitAtComma(name, RFindCommaSpace(name))

(***************************************************************************)
(* String literals of merge_and_clean_csv                                  *)
(***************************************************************************)
NO_EMAIL == <<"N","O"," ","E","M","A","I","L">>
MISSING_EMAIL == <<"M","I","S","S","I","N","G"," ","E","M","A","I","L">>
INVALID_EMAIL == <<"I","N","V","A","L","I","D"," ","E","M","A","I","L">>
DUPLICATE == <<"D","U","P","L","I","C","A","T","E">>
INVALID_EMAIL_PARTS ==
    <<"I","N","V","A","L","I","D"," ","E","M","A","I","L"," ","P","A","R","T","S">>
\* the "; " that joins the entries of Notes
NoteSep == <<";"," ">>
BOUNCED == <<"B","o","u","n","c","e","d">>
UNSUBSCRIBED == <<"U","n","s","u","b","s","c","r","i","b","e","d">>
NO_VEHICLE == <<"N","o"," ","V","e","h","i","c","l","e">>

\* f"Customer Name: '{name}' and Company Name: '{company}'"
CustomerNote(name, company) ==
    <<"C","u","s","t","o","m","e","r"," ","N","a","m","e",":"," ","'">> \o name
    \o <<"'"," ","a","n","d"," ","C","o","m","p","a","n","y"," ","N","a","m","e",":"," ","'">>
    \o company \o <<"'">>

(***************************************************************************)
(* Rows (dicts of csv.DictReader) and the insertion-ordered dict           *)
(***************************************************************************)
\* `field in row and row[field]`
Truthy(row, field) == field \in DOMAIN row /\ row[field] # <<>>
\* row.get(field, ''): an absent field reads as the empty string
Get(row, field) == IF field \in DOMAIN row THEN row[field] ELSE <<>>
\* row[field] = value
Put(row, field, value) ==
    [f \in DOMAIN row \cup {field} |-> IF f = field THEN value ELSE row[f]]

\* a dict is the sequence of its [key, row] items in insertion order
Keys(d) == {d[n].key : n \in DOMAIN d}
IndexOf(d, k) == CHOOSE n \in DOMAIN d : d[n].key = k
Lookup(d, k) == d[IndexOf(d, k)].row
\* mutant: assigning to an existing key moves it behind the other keys
DictSetMoved(d, k, v) ==
    Append(SelectSeq(d, LAMBDA item : item.key # k), [key |-> k, row |-> v])

\* d[k] = v: an existing key keeps its place, a new key goes last
DictSet(d, k, v) ==
    IF k \in Keys(d) THEN [d EXCEPT ![IndexOf(d, k)].row = v]
    ELSE Append(d, [key |-> k, row |-> v])

\* the header of the existing file: the fields of its docstring that the merge
\* reads or writes, and one that it only passes through
existing_fieldnames ==
    <<"EMAIL", "FIRST_NAME", "LAST_NAME", "NAME", "CAR", "COMPANY_NAME">>
\* the header of the output file
output_fieldnames ==
    IF \E n \in DOMAIN existing_fieldnames : existing_fieldnames[n] = "Notes"
    THEN existing_fieldnames
    ELSE Append(existing_fieldnames, "Notes")

\* no_email_consolidated is None, or Some(row)
None == <<>>
Some(r) == <<r>>

(***************************************************************************)
(* The steps of merge_and_clean_csv as functions of the data               *)
(***************************************************************************)
\* mutant: the existing file keys the dict without validating the email
LoadedCustomersUnchecked(customers, r) ==
    IF Truthy(r, "EMAIL") THEN DictSet(customers, lower(r["EMAIL"]), r)
    ELSE customers

\* existing_customers after one more row of the existing file
LoadedCustomers(customers, r) ==
    IF Truthy(r, "EMAIL") /\ is_valid_email(lower(r["EMAIL"]))
    THEN DictSet(customers, lower(r["EMAIL"]), r)
    ELSE customers

\* no_email_rows after one more row of the existing file
LoadedNoEmailRows(rows, r) ==
    IF Truthy(r, "EMAIL") /\ ~is_valid_email(lower(r["EMAIL"]))
    THEN Append(rows, Put(r, "EMAIL", NO_EMAIL))
    ELSE rows

\* customer['LAST_NAME'] = last_name; customer['FIRST_NAME'] = first_name
WithNames(customer, parts) ==
    Put(Put(customer, "LAST_NAME", parts[1]), "FIRST_NAME", parts[2])
\* a row with LAST_NAME and FIRST_NAME set from split_name(name)
WithSplitName(customer, name) == WithNames(customer, split_name(name))

\* the backfill of one existing customer
BackfilledCustomer(customer) ==
    IF /\ Truthy(customer, "NAME")
       /\ (Get(customer, "FIRST_NAME") = <<>> \/ Get(customer, "LAST_NAME") = <<>>)
    THEN WithSplitName(customer, customer["NAME"])
    ELSE customer

\* mutant: every row without a usable email replaces the accumulator
SeededAccumulatorLast(acc, r, tag) ==
    LET c == Put(r, "EMAIL", NO_EMAIL)
    IN  Some(IF "Notes" \in DOMAIN c
             THEN Put(c, "Notes", c["Notes"] \o NoteSep \o tag)
             ELSE Put(c, "Notes", tag))

\* no_email_consolidated after a row without a usable email
SeededAccumulator(acc, r, tag) ==
    IF acc = None
    THEN LET c == Put(r, "EMAIL", NO_EMAIL)
         IN  Some(IF "Notes" \in DOMAIN c
                  THEN Put(c, "Notes", c["Notes"] \o NoteSep \o tag)
                  ELSE Put(c, "Notes", tag))
    ELSE acc

\* `if 'Notes' in r and r['Notes']: r['Notes'] += '; ' + text
\*  else: r['Notes'] = text`
AppendNote(r, text) ==
    IF Truthy(r, "Notes") THEN Put(r, "Notes", r["Notes"] \o NoteSep \o text)
    ELSE Put(r, "Notes", text)

\* mutant: the address keys the dict in the letter case it was written in
MergedKeyAsWritten(email) == email

\* the key of an address of the new file
MergedKey(email) == lower(email)

\* current_row: the copy of the incoming row made for one of its addresses
CurrentRow(r, email, n_valid, invalid) ==
    LET c0 == Put(r, "EMAIL", email)
        c1 == IF n_valid > 1 THEN AppendNote(c0, DUPLICATE) ELSE c0
    IN  IF invalid THEN AppendNote(c1, INVALID_EMAIL_PARTS) ELSE c1

\* the Notes of an existing customer that had Notes, after a tag of the
\* incoming row is propagated
PropagatedTag(notes, current_notes, tag) ==
    IF Contains(current_notes, tag) /\ ~Contains(notes, tag)
    THEN notes \o NoteSep \o tag
    ELSE notes

\* mutant: the note replaces the Notes the customer had
MatchedNotesReplaced(customer, current_row) ==
    CustomerNote(current_row["NAME"], current_row["COMPANY_NAME"])

\* the Notes of an existing customer after an incoming row matched it
MatchedNotes(customer, current_row) ==
    LET notes == CustomerNote(current_row["NAME"], current_row["COMPANY_NAME"])
        cur == Get(current_row, "Notes")
    IN  IF Truthy(customer, "Notes")
        THEN PropagatedTag(
                 PropagatedTag(customer["Notes"] \o NoteSep \o notes, cur, DUPLICATE),
                 cur, INVALID_EMAIL_PARTS)
        ELSE LET n1 == IF Contains(cur, DUPLICATE)
                       THEN notes \o NoteSep \o DUPLICATE ELSE notes
             IN  IF Contains(cur, INVALID_EMAIL_PARTS)
                 THEN n1 \o NoteSep \o INVALID_EMAIL_PARTS ELSE n1

\* mutant: the incoming display name always replaces the existing one
MatchedNameAlways(customer, current_row) ==
    LET c == Put(customer, "NAME", current_row["NAME"])
    IN  IF Get(c, "FIRST_NAME") = <<>> \/ Get(c, "LAST_NAME") = <<>>
        THEN WithSplitName(c, current_row["NAME"])
        ELSE c

\* the name fields of an existing customer after an incoming row matched it
MatchedName(customer, current_row) ==
    IF ~Truthy(customer, "NAME")
    THEN LET c == Put(customer, "NAME", current_row["NAME"])
         IN  IF Get(c, "FIRST_NAME") = <<>> \/ Get(c, "LAST_NAME") = <<>>
             THEN WithSplitName(c, current_row["NAME"])
             ELSE c
    ELSE customer

\* an existing customer after an incoming row matched it
MatchedCustomer(customer, current_row) ==
    MatchedName(Put(customer, "Notes", MatchedNotes(customer, current_row)),
                current_row)

\* new_customer with every field of the output empty
BlankCustomer ==
    [f \in {output_fieldnames[n] : n \in DOMAIN output_fieldnames} |-> <<>>]

\* its EMAIL, COMPANY_NAME and NAME
NewCustomerFields(current_row, email) ==
    Put(Put(Put(BlankCustomer, "EMAIL", email),
            "COMPANY_NAME", current_row["COMPANY_NAME"]),
        "NAME", current_row["NAME"])

\* its LAST_NAME and FIRST_NAME
NewCustomerNames(c, current_row) ==
    IF Truthy(current_row, "NAME") THEN WithSplitName(c, current_row["NAME"])
    ELSE c

\* mutant: the new customer gets no Notes from current_row
NewCustomerNotesUntagged(c, current_row, n_valid) == c

\* its Notes, from current_row
NewCustomerNotes(c, current_row, n_valid) ==
    IF Truthy(current_row, "Notes") THEN Put(c, "Notes", current_row["Notes"])
    ELSE IF n_valid > 1 THEN Put(c, "Notes", DUPLICATE)
    ELSE c

\* the INVALID EMAIL PARTS added to its Notes
NewCustomerInvalid(c, invalid) ==
    IF invalid THEN AppendNote(c, INVALID_EMAIL_PARTS) ELSE c

\* new_customer: the row made for an address that is not yet a key
NewCustomer(current_row, email, n_valid, invalid) ==
    NewCustomerInvalid(
        NewCustomerNotes(
            NewCustomerNames(NewCustomerFields(current_row, email), current_row),
            current_row, n_valid),
        invalid)

\* merged_customers after current_row is merged under its key
FoldedCurrentRow(customers, email, current_row, n_valid, invalid) ==
    IF email \in Keys(customers)
    THEN DictSet(customers, email,
                 MatchedCustomer(Lookup(customers, email), current_row))
    ELSE DictSet(customers, email,
                 NewCustomer(current_row, email, n_valid, invalid))

\* merged_customers after the address with key email of row r
FoldedKey(customers, r, email, n_valid, invalid) ==
    FoldedCurrentRow(customers, email, CurrentRow(r, email, n_valid, invalid),
                     n_valid, invalid)

\* merged_customers after one address of an incoming row
FoldedEmail(customers, r, address, n_valid, invalid) ==
    FoldedKey(customers, r, MergedKey(address), n_valid, invalid)

\* mutant: the accumulator is always appended as one more no-email row
FinalNoEmailRowsAppended(rows, acc) ==
    IF acc = None THEN rows ELSE Append(rows, acc[1])

\* no_email_rows after the accumulator is added
FinalNoEmailRows(rows, acc) ==
    IF acc = None THEN rows
    ELSE IF rows # <<>>
    THEN LET a == acc[1]
             r1 == AppendNote(rows[1],
                              CustomerNote(Get(a, "NAME"), Get(a, "COMPANY_NAME")))
             r2 == IF ~Truthy(r1, "NAME") /\ "NAME" \in DOMAIN a
                   THEN LET c == Put(r1, "NAME", a["NAME"])
                        IN  IF Truthy(a, "NAME")
                            THEN WithSplitName(c, a["NAME"]) ELSE c
                   ELSE r1
         IN  [rows EXCEPT ![1] = r2]
    ELSE Append(rows, acc[1])

\* the keys of a row that are no field of the output header
WrongFields(r) ==
    DOMAIN r \ {output_fieldnames[n] : n \in DOMAIN output_fieldnames}
\* what writerow raises for a row with such a key
ValueError == [raises |-> <<"V","a","l","u","e","E","r","r","o","r">>]
\* csv.DictWriter.writerow with the default extrasaction='raise': ValueError
\* for a row with a key outside the header, else the fields of the header,
\* '' for a field the row lacks
WrittenRow(r) ==
    IF WrongFields(r) # {} THEN ValueError
    ELSE [f \in {output_fieldnames[n] : n \in DOMAIN output_fieldnames} |->
             Get(r, f)]
\* the rows of the output file after the loops of writerow over these rows:
\* all of them, or those before the first one for which writerow raises
RECURSIVE WrittenRows(_)
WrittenRows(rows) ==
    IF rows = <<>> \/ WrongFields(Head(rows)) # {} THEN <<>>
    ELSE <<WrittenRow(Head(rows))>> \o WrittenRows(Tail(rows))
\* whether one of these writerow calls raises
WriteRaises(rows) == \E n \in DOMAIN rows : WrongFields(rows[n]) # {}

(***************************************************************************)
(* The annotation passes                                                   *)
(***************************************************************************)
\* an auxiliary file as csv.DictReader gives it: the header, the rows as the
\* values of their columns, and whether reading it raises (the file is
\* missing, or an error comes after these rows were read)
AuxFile(fieldnames, rows, error) ==
    [fieldnames |-> fieldnames, rows |-> rows, error |-> error]

\* the columns whose header contains "email" in any letter case
EmailColumns(fieldnames) ==
    {c \in DOMAIN fieldnames :
        Contains(lower(fieldnames[c]), <<"e","m","a","i","l">>)}
\* email_field: the name of the first of them, None when there is none
email_field(fieldnames) ==
    IF EmailColumns(fieldnames) = {} THEN None
    ELSE fieldnames[Min(EmailColumns(fieldnames))]
\* row[name] of a row of csv.DictReader: the cell of the last column whose
\* header is that name
CellOf(fieldnames, cells, name) ==
    cells[Max({c \in DOMAIN fieldnames : fieldnames[c] = name})]
\* row[email_field].lower().strip()
AuxAddress(value) == strip(lower(value))
\* the addresses collected from the rows under that name
CollectedEmails(fieldnames, rows, name) ==
    {AuxAddress(CellOf(fieldnames, rows[n], name)) : n \in {m \in DOMAIN rows :
        /\ CellOf(fieldnames, rows[m], name) # <<>>
        /\ is_valid_email(AuxAddress(CellOf(fieldnames, rows[m], name)))}}
\* bounced_emails, unsubscribed_emails, no_vehicle_emails
aux_emails(file) ==
    IF email_field(file.fieldnames) = None THEN {}
    ELSE CollectedEmails(file.fieldnames, file.rows, email_field(file.fieldnames))

\* the tag added to the Notes of every customer whose key is in emails
MarkedCustomers(customers, emails, tag) ==
    [n \in DOMAIN customers |->
        IF customers[n].key \in emails
        THEN [key |-> customers[n].key, row |-> AppendNote(customers[n].row, tag)]
        ELSE customers[n]]

\* mutant: a file whose reading raised still marks the addresses read so far
AnnotatedCustomersPartial(customers, file, tag) ==
    IF file = None THEN customers
    ELSE MarkedCustomers(customers, aux_emails(file[1]), tag)

\* merged_customers after one pass: no file, no pass; an exception while the
\* file is read leaves the try block before any customer is marked
AnnotatedCustomers(customers, file, tag) ==
    IF file = None THEN customers
    ELSE IF file[1].error THEN customers
    ELSE MarkedCustomers(customers, aux_emails(file[1]), tag)

(***************************************************************************)
(* The load and the fold as functions of the two files                     *)
(***************************************************************************)
\* current_row['NAME'] and current_row['COMPANY_NAME'] do not raise KeyError
HasNameColumns(r) == "NAME" \in DOMAIN r /\ "COMPANY_NAME" \in DOMAIN r

\* existing_customers and no_email_rows after one more row
LoadedRow(t, r) ==
    [customers |-> LoadedCustomers(t.customers, r),
     no_email_rows |-> LoadedNoEmailRows(t.no_email_rows, r)]
\* after all the rows of the existing file
RECURSIVE LoadedTable(_)
LoadedTable(rows) ==
    IF rows = <<>> THEN [customers |-> <<>>, no_email_rows |-> <<>>]
    ELSE LoadedRow(LoadedTable(SubSeq(rows, 1, Len(rows) - 1)), rows[Len(rows)])

\* the backfill of every keyed customer
BackfilledCustomers(customers) ==
    [n \in DOMAIN customers |->
        [key |-> customers[n].key, row |-> BackfilledCustomer(customers[n].row)]]

\* the locals of merge_and_clean_csv when the loop over the new file begins
FoldStart(loaded) ==
    [customers |-> BackfilledCustomers(loaded.customers),
     no_email_rows |-> loaded.no_email_rows,
     acc |-> None, row |-> <<>>, valid_emails |-> <<>>, has_invalid |-> FALSE,
     error |-> FALSE]

\* merged_customers after the first k addresses of row r
RECURSIVE FoldedAddresses(_, _, _, _)
FoldedAddresses(customers, r, split, k) ==
    IF k = 0 THEN customers
    ELSE FoldedEmail(FoldedAddresses(customers, r, split, k - 1), r,
                     split.valid_emails[k], Len(split.valid_emails),
                     split.has_invalid)

\* the locals after a row with a non-empty EMAIL, split into its addresses
FoldedSplit(t, r, split) ==
    IF split.valid_emails = <<>>
    THEN [t EXCEPT !.acc = SeededAccumulator(t.acc, r, INVALID_EMAIL),
                   !.row = r, !.valid_emails = <<>>,
                   !.has_invalid = split.has_invalid]
    ELSE IF ~HasNameColumns(r)
    THEN [t EXCEPT !.row = r, !.valid_emails = split.valid_emails,
                   !.has_invalid = split.has_invalid, !.error = TRUE]
    ELSE [t EXCEPT !.customers = FoldedAddresses(t.customers, r, split,
                                                 Len(split.valid_emails)),
                   !.row = r, !.valid_emails = split.valid_emails,
                   !.has_invalid = split.has_invalid]

\* the locals after one more row of the new file
FoldedRow(t, r) ==
    IF t.error THEN t
    ELSE IF ~Truthy(r, "EMAIL")
    THEN [t EXCEPT !.acc = SeededAccumulator(t.acc, r, MISSING_EMAIL), !.row = r]
    ELSE FoldedSplit(t, r, split_emails(r["EMAIL"]))

\* after all the rows of the new file
RECURSIVE FoldedRows(_, _)
FoldedRows(t, rows) ==
    IF rows = <<>> THEN t
    ELSE FoldedRow(FoldedRows(t, SubSeq(rows, 1, Len(rows) - 1)), rows[Len(rows)])

\* the accumulator added to the no-email rows; a KeyError raised in the loop
\* leaves merge_and_clean_csv before that, with the locals as they were
FinalTable(t) ==
    IF t.error THEN t
    ELSE [t EXCEPT !.no_email_rows = FinalNoEmailRows(t.no_email_rows, t.acc)]

\* the locals of merge_and_clean_csv before the annotation passes
MergedTable(existing, new) ==
    FinalTable(FoldedRows(FoldStart(LoadedTable(existing)), new))

(***************************************************************************)
(* Inputs                                                                  *)
(***************************************************************************)
\* the largest number of rows of the existing file and of the new file
MaxExisting == 2
MaxNew == 2

ExistingRow(email, first, last, name, car, company) ==
    [EMAIL |-> email, FIRST_NAME |-> first, LAST_NAME |-> last, NAME |-> name,
     CAR |-> car, COMPANY_NAME |-> company]
NewRow(email, name, company) ==
    [EMAIL |-> email, NAME |-> name, COMPANY_NAME |-> company]

\* rows of the existing file: a valid email with names to backfill, the same
\* address in capitals with no display name, two invalid emails (one with and
\* one without a display name), no email, a valid email with a first name, a
\* display name and no last name, a valid email with a first name alone, an
\* invalid email with both names and no display name, and an address in
\* capitals with the Kelvin sign for its K, whose lower case is a@b.ko
ExistingPool ==
    { ExistingRow(<<"a","@","b",".","c","o">>, <<>>, <<>>,
                  <<"S","m","i","t","h",","," ","J","o","h","n">>, <<"K","i","a">>,
                  <<"A","c","m","e">>),
      ExistingRow(<<"A","@","B",".","C","O">>, <<"A","l">>, <<"J","o","n","e","s">>,
                  <<>>, <<>>, <<>>),
      ExistingRow(<<"b","a","d">>, <<>>, <<>>,
                  <<"D","o","e",","," ","J","a","n","e">>, <<>>, <<>>),
      ExistingRow(<<"x"," ","y">>, <<>>, <<>>, <<>>, <<>>, <<>>),
      ExistingRow(<<>>, <<"E","d">>, <<>>, <<>>, <<>>, <<>>),
      ExistingRow(<<"c","@","d",".","c","o">>, <<"A","l">>, <<>>,
                  <<"S","m","i","t","h",","," ","J","o","h","n">>, <<>>, <<>>),
      ExistingRow(<<"e","@","f",".","c","o">>, <<"E","d">>, <<>>, <<>>, <<>>, <<>>),
      ExistingRow(<<"n","o">>, <<"E","d">>, <<"P","o","e">>, <<>>, <<>>, <<>>),
      ExistingRow(<<"A","@","B",".",KELVIN,"O">>, <<"A","l">>, <<"K","a","y">>,
                  <<>>, <<>>, <<>>) }

\* rows of the new file: no EMAIL field, an empty one, one with no valid
\* address, one valid address (under a display name that reads DUPLICATE), two
\* addresses, an address and an invalid part, one address written twice in
\* two letter cases, two addresses and an invalid part, an address in a row
\* that has no NAME field, and an empty EMAIL in a row with a column PHONE
\* that the output header lacks
NewPool ==
    { [NAME |-> <<"R","o","e",","," ","S","a","m">>,
       COMPANY_NAME |-> <<"A","c","m","e">>],
      NewRow(<<>>, <<"P","o","e",","," ","E","d">>, <<>>),
      NewRow(<<"b","a","d",";","x">>,
             <<"F","o","x",","," ","M","o"," ","(","M","a","x",")">>, <<>>),
      NewRow(<<"a","@","b",".","c","o">>, DUPLICATE, <<>>),
      NewRow(<<"A","@","b",".","c","o",";"," ","c","@","d",".","c","o">>,
             <<"L","e","e",","," ","A","n","n">>, <<"A","c","m","e">>),
      NewRow(<<"c","@","d",".","c","o"," ","b","a","d">>,
             <<"R","a","y",","," ","B","o">>, <<>>),
      NewRow(<<"e","@","f",".","c","o",",","E","@","F",".","c","o">>, <<>>, <<>>),
      NewRow(<<"a","@","b",".","c","o","/","e","@","f",".","c","o","/","b","a","d">>,
             <<"K","i","m",","," ","D","i">>, <<>>),
      [EMAIL |-> <<"g","@","h",".","c","o">>, COMPANY_NAME |-> <<"A","c","m","e">>],
      [EMAIL |-> <<>>, NAME |-> <<"P","o","e",","," ","E","d">>,
       COMPANY_NAME |-> <<>>, PHONE |-> <<"5","5","5">>] }

\* the largest number of rows of each of the two files in the runs that are
\* given auxiliary files
MaxAnnotated == 1

\* the files of at most MaxAnnotated rows
InputFiles(pool) == UNION {[1..k -> pool] : k \in 0..MaxAnnotated}

\* the bounced file: not given; three columns of which the second and the
\* third have "email" in the header, an address in capitals between spaces, an
\* invalid value and an empty one; the same file when an error is raised
\* after these rows; a file whose header has no "email"; a file whose header
\* is the name email twice, with an address in the second column of the first
\* row and another in the first column of the second
BouncedPool ==
    { None,
      Some(AuxFile(<<<<"N","o">>, <<"E","-","M","A","I","L"," ","E","m","a","i","l">>,
                     <<"e","m","a","i","l">>>>,
                   << <<<<"1">>, <<" ","A","@","B",".","c","o"," ">>,
                        <<"c","@","d",".","c","o">>>>,
                      <<<<"2">>, <<"b","a","d">>, <<"e","@","f",".","c","o">>>>,
                      <<<<"3">>, <<>>, <<>>>> >>, FALSE)),
      Some(AuxFile(<<<<"N","o">>, <<"E","-","M","A","I","L"," ","E","m","a","i","l">>,
                     <<"e","m","a","i","l">>>>,
                   << <<<<"1">>, <<" ","A","@","B",".","c","o"," ">>,
                        <<"c","@","d",".","c","o">>>> >>, TRUE)),
      Some(AuxFile(<< <<"A","d","d","r","e","s","s">> >>,
                   << << <<"a","@","b",".","c","o">> >> >>, FALSE)),
      Some(AuxFile(<< <<"e","m","a","i","l">>, <<"e","m","a","i","l">> >>,
                   << << <<"b","a","d">>, <<"a","@","b",".","c","o">> >>,
                      << <<"c","@","d",".","c","o">>, <<"b","a","d">> >> >>,
                   FALSE)) }

\* the unsubscribed file: not given, missing, or one column with two addresses
UnsubscribedPool ==
    { None,
      Some(AuxFile(<<>>, <<>>, TRUE)),
      Some(AuxFile(<< <<"E","M","A","I","L">> >>,
                   << << <<"a","@","b",".","c","o">> >>,
                      << <<"c","@","d",".","c","o">> >> >>, FALSE)) }

\* the no-vehicle file: not given, or one column with two addresses and the
\* address A@B.KO, with the Kelvin sign for its K, between a no-break space
\* and an ideographic space
NoVehiclePool ==
    { None,
      Some(AuxFile(<< <<"e","m","a","i","l","s">> >>,
                   << << <<"e","@","f",".","c","o">> >>,
                      << <<"a","@","b",".","c","o">> >>,
                      << <<"U+00A0","A","@","B",".",KELVIN,"O","U+3000">> >> >>,
                   FALSE)) }

\* the strings made of at most n of the pieces, one after the other
RECURSIVE Concatenations(_, _)
Concatenations(pieces, n) ==
    IF n = 0 THEN {<<>>}
    ELSE Concatenations(pieces, n - 1)
         \cup {s \o t : s \in Concatenations(pieces, n - 1), t \in pieces}

\* the largest number of pieces of an argument of split_emails
MaxParts == 4
\* two addresses, an invalid part, and the separators
EmailPieces ==
    { <<"a","@","b",".","c","o">>, <<"C","@","d",".","c","o">>, <<"b","a","d">>,
      <<";"," ">>, <<",">>, <<" ">>, <<"/">> }
\* the arguments of split_emails: the strings of up to MaxParts pieces,
\* "a@b.com; bad, c@d.com", two strings with the control characters that
\* are whitespace: two addresses around a vertical tab, and an address and an
\* invalid part among the four separators, and two strings with whitespace
\* above 0x7f: two addresses around a no-break space, and an address with
\* a capital E acute, one with the Kelvin sign and an invalid part among a
\* line separator, an ideographic space, a next line and an em space
EmailStrings ==
    Concatenations(EmailPieces, MaxParts)
    \cup { <<"a","@","b",".","c","o","m",";"," ","b","a","d",","," ",
             "c","@","d",".","c","o","m">>,
           <<"a","@","b",".","c","o",VT,"c","@","d",".","c","o">>,
           <<FS,"a","@","b",".","c","o",US,RS,"b","a","d",GS>>,
           <<"a","@","b",".","c","o","U+00A0","c","@","d",".","c","o">>,
           <<"U+2028","U+00C9","@","b",".","c","o","U+3000",
             "A","@","B",".",KELVIN,"O","U+0085","b","a","d","U+2003">> }

\* the largest number of pieces of an argument of split_name
MaxWords == 4
\* two words, a nickname in parentheses, a word with XX, a word with a digit,
\* and the separators
NamePieces ==
    { <<"s","m","i","t","h">>, <<"B","O","B">>, <<"(","A","l",")">>,
      <<"a","X","x">>, <<"r","2">>, <<","," ">>, <<" ">>, <<",">> }
\* the arguments of split_name: the strings of up to MaxWords pieces, and the
\* names "Smith, Jones, Bob", "Smith, John", "O'Neil, Sean, Jr",
\* "Smith, Robert (Bob) Jr", "Smith, Mary Robert (Bob) Jr",
\* "Mary Robert (Bob) Jr", "XXXX 123", "a-b o'neil", and two names with the
\* control characters that are whitespace: "smith, Robert(Bob)" with a
\* vertical tab before the parenthesis and a file separator at the end, and
\* "smith,bob r2" within group and unit separators, with a vertical tab after
\* the comma and a record separator for the space; and six names with
\* characters above 0x7f: "Garcia, Jose (Pepe)" with e acute for both e,
\* e acute before "(Al)", "joseb" with e acute, "ea strasse" with e acute
\* and sharp s before a sharp s and a Kelvin sign, "smith a2 xu" with
\* no-break spaces, superscript two, an ideographic space and the micro sign,
\* and "ya, ub ac 1" with y diaeresis, the micro sign, the feminine ordinal
\* indicator and a half
NameStrings ==
    Concatenations(NamePieces, MaxWords)
    \cup { <<"S","m","i","t","h",","," ","J","o","n","e","s",","," ","B","o","b">>,
           <<"S","m","i","t","h",","," ","J","o","h","n">>,
           <<"O","'","N","e","i","l",","," ","S","e","a","n",","," ","J","r">>,
           <<"S","m","i","t","h",","," ","R","o","b","e","r","t"," ",
             "(","B","o","b",")"," ","J","r">>,
           <<"S","m","i","t","h",","," ","M","a","r","y"," ","R","o","b","e","r","t",
             " ","(","B","o","b",")"," ","J","r">>,
           <<"M","a","r","y"," ","R","o","b","e","r","t"," ","(","B","o","b",")",
             " ","J","r">>,
           <<"X","X","X","X"," ","1","2","3">>,
           <<"a","-","b"," ","o","'","n","e","i","l">>,
           <<"s","m","i","t","h",","," ","R","o","b","e","r","t",VT,
             "(","B","o","b",")",FS>>,
           <<GS,"s","m","i","t","h",",",VT,"b","o","b",RS,"r","2",US>>,
           <<"G","a","r","c","i","a",","," ","J","o","s","U+00E9"," ",
             "(","P","e","p","U+00E9",")">>,
           <<"U+00E9"," ","(","A","l",")">>,
           <<"j","o","s","U+00E9","b">>,
           <<"U+00E9","a"," ","s","t","r","a",SHARP_S,"e"," ",SHARP_S,KELVIN>>,
           <<"U+00A0","s","m","i","t","h","U+00A0","a","U+00B2","U+3000","x",MICRO>>,
           <<"U+00FF","a",","," ",MICRO,"b"," ","U+00AA","c"," ","1","U+00BD">> }

(***************************************************************************)
(* State                                                                   *)
(***************************************************************************)
VARIABLES
    pc,                     \* where merge_and_clean_csv is
    existing_rows,          \* the rows of the existing file read so far
    new_rows,               \* the rows of the new file read so far
    merged_customers,       \* existing_customers, then merged_customers
    no_email_rows,
    no_email_consolidated,
    row,                    \* the row of the new file being processed
    valid_emails,           \* its valid addresses
    has_invalid,
    i,                      \* how many of valid_emails are processed
    output,                 \* the rows written to the output file
    bounced_file,           \* the three optional arguments: None or Some(file)
    unsubscribed_file,
    no_vehicle_file,
    argument,               \* the string a pure function is called with
    returned                \* None, or Some(what the function returned)

auxVars == <<bounced_file, unsubscribed_file, no_vehicle_file>>
callVars == <<argument, returned>>
mergeVars == <<existing_rows, new_rows, merged_customers, no_email_rows,
               no_email_consolidated, row, valid_emails, has_invalid, i, output>>

vars == <<pc, mergeVars, auxVars, callVars>>

Init ==
    /\ pc = "load"
    /\ existing_rows = <<>>
    /\ new_rows = <<>>
    /\ merged_customers = <<>>
    /\ no_email_rows = <<>>
    /\ no_email_consolidated = None
    /\ row = <<>>
    /\ valid_emails = <<>>
    /\ has_invalid = FALSE
    /\ i = 0
    /\ output = <<>>
    /\ bounced_file = None
    /\ unsubscribed_file = None
    /\ no_vehicle_file = None
    /\ argument = <<>>
    /\ returned = None

\* one iteration of `for row in reader` over the existing file
LoadExistingRow ==
    /\ pc = "load"
    /\ Len(existing_rows) < MaxExisting
    /\ \E r \in ExistingPool :
        /\ existing_rows' = Append(existing_rows, r)
        /\ merged_customers' = LoadedCustomers(merged_customers, r)
        /\ no_email_rows' = LoadedNoEmailRows(no_email_rows, r)
    /\ UNCHANGED <<pc, new_rows, no_email_consolidated, row, valid_emails,
                   has_invalid, i, output, auxVars, callVars>>

\* the end of the existing file: the copy into merged_customers and the
\* backfill of the names of every keyed customer
Backfill ==
    /\ pc = "load"
    /\ merged_customers' = BackfilledCustomers(merged_customers)
    /\ no_email_consolidated' = None
    /\ pc' = "fold"
    /\ UNCHANGED <<existing_rows, new_rows, no_email_rows, row, valid_emails,
                   has_invalid, i, output, auxVars, callVars>>

\* the head of one iteration of `for row in reader` over the new file: a row
\* without a usable email goes to the accumulator, another one is split
ReadNewRow ==
    /\ pc = "fold"
    /\ i = Len(valid_emails)
    /\ Len(new_rows) < MaxNew
    /\ \E r \in NewPool :
        /\ new_rows' = Append(new_rows, r)
        /\ row' = r
        /\ IF ~Truthy(r, "EMAIL")
           THEN /\ no_email_consolidated' =
                       SeededAccumulator(no_email_consolidated, r, MISSING_EMAIL)
                /\ UNCHANGED <<valid_emails, has_invalid, i>>
           ELSE \E split \in {split_emails(r["EMAIL"])} :
                    /\ valid_emails' = split.valid_emails
                    /\ has_invalid' = split.has_invalid
                    /\ i' = 0
                    /\ no_email_consolidated' =
                           IF split.valid_emails = <<>>
                           THEN SeededAccumulator(no_email_consolidated, r,
                                                  INVALID_EMAIL)
                           ELSE no_email_consolidated
    /\ UNCHANGED <<pc, existing_rows, merged_customers, no_email_rows, output,
                   auxVars, callVars>>

\* one iteration of `for i, email in enumerate(valid_emails)`; a row without
\* a NAME or a COMPANY_NAME field raises KeyError, which ends the run
ProcessEmail ==
    /\ pc = "fold"
    /\ i < Len(valid_emails)
    /\ IF HasNameColumns(row)
       THEN /\ merged_customers' =
                   FoldedEmail(merged_customers, row, valid_emails[i + 1],
                               Len(valid_emails), has_invalid)
            /\ i' = i + 1
            /\ pc' = pc
       ELSE /\ pc' = "error"
            /\ UNCHANGED <<merged_customers, i>>
    /\ UNCHANGED <<existing_rows, new_rows, no_email_rows,
                   no_email_consolidated, row, valid_emails, has_invalid, output,
                   auxVars, callVars>>

\* the end of the new file: the accumulator joins the no-email rows
Finalize ==
    /\ pc = "fold"
    /\ i = Len(valid_emails)
    /\ no_email_rows' = FinalNoEmailRows(no_email_rows, no_email_consolidated)
    /\ pc' = "bounced"
    /\ UNCHANGED <<existing_rows, new_rows, merged_customers,
                   no_email_consolidated, row, valid_emails, has_invalid, i, output,
                   auxVars, callVars>>

\* the three passes: `if bounced_file:` ... `except Exception`, and the same
\* for the unsubscribed and the no-vehicle file
BouncedPass ==
    /\ pc = "bounced"
    /\ merged_customers' =
           AnnotatedCustomers(merged_customers, bounced_file, BOUNCED)
    /\ pc' = "unsubscribed"
    /\ UNCHANGED <<existing_rows, new_rows, no_email_rows, no_email_consolidated,
                   row, valid_emails, has_invalid, i, output, auxVars, callVars>>

UnsubscribedPass ==
    /\ pc = "unsubscribed"
    /\ merged_customers' =
           AnnotatedCustomers(merged_customers, unsubscribed_file, UNSUBSCRIBED)
    /\ pc' = "no_vehicle"
    /\ UNCHANGED <<existing_rows, new_rows, no_email_rows, no_email_consolidated,
                   row, valid_emails, has_invalid, i, output, auxVars, callVars>>

NoVehiclePass ==
    /\ pc = "no_vehicle"
    /\ merged_customers' =
           AnnotatedCustomers(merged_customers, no_vehicle_file, NO_VEHICLE)
    /\ pc' = "write"
    /\ UNCHANGED <<existing_rows, new_rows, no_email_rows, no_email_consolidated,
                   row, valid_emails, has_invalid, i, output, auxVars, callVars>>

\* the rows handed to writerow: the keyed customers, then the no-email rows
OutputRows ==
    [n \in DOMAIN merged_customers |-> merged_customers[n].row] \o no_email_rows

\* the output file: the keyed customers, then the no-email rows; a row with a
\* key outside the header ends the merge with ValueError, the rows before it
\* written
WriteOutput ==
    /\ pc = "write"
    /\ output' = WrittenRows(OutputRows)
    /\ pc' = IF WriteRaises(OutputRows) THEN "write_error" ELSE "done"
    /\ UNCHANGED <<existing_rows, new_rows, merged_customers, no_email_rows,
                   no_email_consolidated, row, valid_emails, has_invalid, i,
                   auxVars, callVars>>

Next ==
    \/ LoadExistingRow
    \/ Backfill
    \/ ReadNewRow
    \/ ProcessEmail
    \/ Finalize
    \/ BouncedPass
    \/ UnsubscribedPass
    \/ NoVehiclePass
    \/ WriteOutput

\* merge_and_clean_csv(existing_file, new_file, output_file): files of up to
\* MaxExisting and MaxNew rows, no auxiliary file
Spec == Init /\ [][Next]_vars

\* merge_and_clean_csv called with auxiliary files, on files of up to
\* MaxAnnotated rows each, seen from the end of the loop over the new file
AnnotateInit ==
    /\ pc = "bounced"
    /\ \E e \in InputFiles(ExistingPool), n \in InputFiles(NewPool) :
          \E t \in {MergedTable(e, n)} :
              /\ ~t.error
              /\ existing_rows = e
              /\ new_rows = n
              /\ merged_customers = t.customers
              /\ no_email_rows = t.no_email_rows
              /\ no_email_consolidated = t.acc
              /\ row = t.row
              /\ valid_emails = t.valid_emails
              /\ has_invalid = t.has_invalid
              /\ i = Len(t.valid_emails)
    /\ output = <<>>
    /\ bounced_file \in BouncedPool
    /\ unsubscribed_file \in UnsubscribedPool
    /\ no_vehicle_file \in NoVehiclePool
    /\ argument = <<>>
    /\ returned = None

AnnotateNext ==
    \/ BouncedPass
    \/ UnsubscribedPass
    \/ NoVehiclePass
    \/ WriteOutput

AnnotateSpec == AnnotateInit /\ [][AnnotateNext]_vars

\* no file is read: the state of a call of one of the pure functions
NoMerge ==
    /\ existing_rows = <<>>
    /\ new_rows = <<>>
    /\ merged_customers = <<>>
    /\ no_email_rows = <<>>
    /\ no_email_consolidated = None
    /\ row = <<>>
    /\ valid_emails = <<>>
    /\ has_invalid = FALSE
    /\ i = 0
    /\ output = <<>>
    /\ bounced_file = None
    /\ unsubscribed_file = None
    /\ no_vehicle_file = None

\* split_emails(email_str) for the strings of EmailStrings
EmailInit ==
    /\ pc = "split_emails"
    /\ argument \in EmailStrings
    /\ returned = None
    /\ NoMerge

CallSplitEmails ==
    /\ pc = "split_emails"
    /\ returned' = Some(split_emails(argument))
    /\ pc' = "returned"
    /\ UNCHANGED <<argument, mergeVars, auxVars>>

EmailSpec == EmailInit /\ [][CallSplitEmails]_vars

\* split_name(name) for the strings of NameStrings
NameInit ==
    /\ pc = "split_name"
    /\ argument \in NameStrings
    /\ returned = None
    /\ NoMerge

CallSplitName ==
    /\ pc = "split_name"
    /\ returned' = Some(split_name(argument))
    /\ pc' = "returned"
    /\ UNCHANGED <<argument, mergeVars, auxVars>>

NameSpec == NameInit /\ [][CallSplitName]_vars

(***************************************************************************)
(* Vocabulary of the properties                                            *)
(***************************************************************************)
\* the entries of a Notes string: its pieces between "; "
RECURSIVE NoteEntries(_)
EntriesAt(notes, seps) ==
    IF seps = {} THEN <<notes>>
    ELSE <<Before(notes, Min(seps))>> \o NoteEntries(After(notes, Min(seps) + 1))
NoteEntries(notes) ==
    IF notes = <<>> THEN <<>>
    ELSE EntriesAt(notes, {n \in 1..(Len(notes) - 1) :
                              notes[n] = ";" /\ notes[n + 1] = " "})

\* how many entries of notes are the tag
CountIn(entries, tag) == Cardinality({n \in DOMAIN entries : entries[n] = tag})
TagCount(notes, tag) == CountIn(NoteEntries(notes), tag)

\* the elements of a sequence
Range(seq) == {seq[n] : n \in DOMAIN seq}

\* the rows of the new file read so far that have a non-empty EMAIL field
NewRowsWithEmail == {r \in Range(new_rows) : Truthy(r, "EMAIL")}
\* the lower-cased valid addresses of one such row
AddressKeys(r) ==
    {lower(a) : a \in Range(split_emails(r["EMAIL"]).valid_emails)}
\* the lower-cased valid emails of the existing file
ExistingKeys ==
    {lower(r["EMAIL"]) : r \in {x \in Range(existing_rows) :
        Truthy(x, "EMAIL") /\ is_valid_email(lower(x["EMAIL"]))}}

\* a step of the inner loop is about to merge an address
AtAddress == pc = "fold" /\ i < Len(valid_emails) /\ HasNameColumns(row)
\* the key of that address
AddressKey == lower(valid_emails[i + 1])
\* the new file is between two rows, or finished
BetweenRows == pc # "load" /\ i = Len(valid_emails)
\* the loop over the new file is left and the accumulator added
AfterFold ==
    pc \in {"bounced", "unsubscribed", "no_vehicle", "write", "done", "write_error"}

(***************************************************************************)
(* Properties                                                              *)
(***************************************************************************)
\* C1: at every point of the load and of the fold, every key of the merged
\* map is the sentinel NO EMAIL or a lower-cased string that is_valid_email
\* accepts.
C1_KeysAreValidLowerCased ==
    \A k \in Keys(merged_customers) :
        \/ k = NO_EMAIL
        \/ is_valid_email(k) /\ lower(k) = k

\* C1 witness: the merge is done with a key that the existing file wrote in
\* capitals, a key that the new file wrote in capitals, and an existing row
\* whose email was refused as a key.
C1_Witness ==
    /\ pc = "done"
    /\ \E r \in Range(existing_rows) :
          Truthy(r, "EMAIL") /\ r["EMAIL"] # lower(r["EMAIL"])
          /\ lower(r["EMAIL"]) \in Keys(merged_customers)
    /\ \E r \in NewRowsWithEmail :
          \E a \in Range(split_emails(r["EMAIL"]).valid_emails) :
              a # lower(a) /\ lower(a) \in Keys(merged_customers)
    /\ no_email_rows # <<>>

\* C2: after the merge the keyed rows are one per key, and the keys are the
\* lower-cased valid emails of the existing file together with the
\* lower-cased valid addresses split from the rows of the new file.
C2_OneRowPerDistinctEmail ==
    AfterFold =>
        /\ Keys(merged_customers) =
               ExistingKeys \cup UNION {AddressKeys(r) : r \in NewRowsWithEmail}
        /\ Cardinality(Keys(merged_customers)) = Len(merged_customers)

\* C2 witness: the merge is done, one address occurs in the existing file and,
\* in another letter case, in the new file, and there is a second key.
C2_Witness ==
    /\ pc = "done"
    /\ \E x \in Range(existing_rows) : \E r \in NewRowsWithEmail :
          \E a \in Range(split_emails(r["EMAIL"]).valid_emails) :
              /\ Truthy(x, "EMAIL")
              /\ a # x["EMAIL"]
              /\ lower(a) = lower(x["EMAIL"])
              /\ lower(a) \in Keys(merged_customers)
    /\ Len(merged_customers) >= 2

\* the merged map once both addresses of the row just read are merged
AfterTwoAddresses ==
    FoldedEmail(FoldedEmail(merged_customers, row, valid_emails[1], 2, has_invalid),
                row, valid_emails[2], 2, has_invalid)
\* a row with two valid addresses has just been read and neither is a key
TwoNewAddresses ==
    /\ AtAddress /\ i = 0 /\ Len(valid_emails) = 2
    /\ lower(valid_emails[1]) \notin Keys(merged_customers)
    /\ lower(valid_emails[2]) \notin Keys(merged_customers)
\* merging both adds two rows, each with the tag DUPLICATE
TwoRowsAddedAndTagged(after) ==
    /\ Len(after) = Len(merged_customers) + 2
    /\ \A n \in 1..2 :
          /\ lower(valid_emails[n]) \in Keys(after)
          /\ TagCount(Get(Lookup(after, lower(valid_emails[n])), "Notes"),
                      DUPLICATE) >= 1

\* C3 as stated: a row with two valid addresses, neither of them a key, adds
\* two distinct keyed rows and each has the tag DUPLICATE.
C3_TwoAddressesAddTwoRows ==
    TwoNewAddresses => TwoRowsAddedAndTagged(AfterTwoAddresses)

\* C3 amended: a row with two valid addresses that differ after lower-casing,
\* neither of them a key, adds two distinct keyed rows and each has the tag
\* DUPLICATE.
C3_TwoDistinctAddressesAddTwoRows ==
    (TwoNewAddresses /\ lower(valid_emails[1]) # lower(valid_emails[2]))
        => TwoRowsAddedAndTagged(AfterTwoAddresses)

\* C3 witness: both addresses of a row are merged, they differ, and each has
\* the row this incoming row made for it: its Notes begin with the tag, with
\* no customer note from a later match.
C3_Witness ==
    /\ pc = "fold" /\ i = 2 /\ Len(valid_emails) = 2
    /\ lower(valid_emails[1]) # lower(valid_emails[2])
    /\ \A n \in 1..2 :
          /\ lower(valid_emails[n]) \in Keys(merged_customers)
          /\ NoteEntries(Lookup(merged_customers,
                                lower(valid_emails[n]))["Notes"])[1] = DUPLICATE
          /\ Lookup(merged_customers, lower(valid_emails[n]))["NAME"] = row["NAME"]

\* the tags that may follow the customer note
TagSuffixes ==
    { <<>>, NoteSep \o DUPLICATE, NoteSep \o INVALID_EMAIL_PARTS,
      NoteSep \o DUPLICATE \o NoteSep \o INVALID_EMAIL_PARTS }
\* old Notes extended by the customer note of the row being processed
NotesWithCustomerNote(old) ==
    IF old # <<>>
    THEN old \o NoteSep \o CustomerNote(row["NAME"], row["COMPANY_NAME"])
    ELSE CustomerNote(row["NAME"], row["COMPANY_NAME"])

\* C4: merging an address whose lower-cased form is already a key leaves the
\* keys and the number of rows as they were, and the Notes of that key's row
\* become its old Notes, "; " and the customer note (the customer note alone
\* when it had no Notes), followed by nothing but propagated tags.
C4_MatchAppendsCustomerNote ==
    [][ (AtAddress /\ i' = i + 1 /\ AddressKey \in Keys(merged_customers)) =>
          /\ Keys(merged_customers') = Keys(merged_customers)
          /\ Len(merged_customers') = Len(merged_customers)
          /\ \E sfx \in TagSuffixes :
                Lookup(merged_customers', AddressKey)["Notes"] =
                    NotesWithCustomerNote(
                        Get(Lookup(merged_customers, AddressKey), "Notes")) \o sfx
      ]_vars

\* C4 witness: some keyed row has a customer note joined by "; " to Notes it
\* already had, and another the customer note as its whole Notes.
C4_Witness ==
    /\ \E c \in Range(merged_customers) : \E r \in Range(new_rows) :
          /\ "NAME" \in DOMAIN r
          /\ Len(NoteEntries(Get(c.row, "Notes"))) >= 2
          /\ NoteEntries(c.row["Notes"])[2] =
                 CustomerNote(r["NAME"], r["COMPANY_NAME"])
    /\ \E c \in Range(merged_customers) : \E r \in Range(new_rows) :
          /\ "NAME" \in DOMAIN r
          /\ Get(c.row, "Notes") = CustomerNote(r["NAME"], r["COMPANY_NAME"])

\* the rows of the new file read so far with an address whose key is k
MatchingRows(k) == {r \in NewRowsWithEmail : k \in AddressKeys(r)}
\* the tag is an entry of the Notes at most once, and once when some row of
\* the set calls for it
TaggedOnceIf(notes, tag, called_for) ==
    /\ TagCount(notes, tag) <= 1
    /\ called_for => TagCount(notes, tag) = 1

\* C5: the Notes of a keyed row that came from the existing file have the tag
\* DUPLICATE exactly once if some matching incoming row had more than one
\* valid address, and INVALID EMAIL PARTS exactly once if some matching
\* incoming row had an invalid part; neither tag ever more than once.
C5_PropagatedTagsExactlyOnce ==
    BetweenRows =>
        \A k \in ExistingKeys :
            /\ TaggedOnceIf(Get(Lookup(merged_customers, k), "Notes"), DUPLICATE,
                   \E r \in MatchingRows(k) :
                       Len(split_emails(r["EMAIL"]).valid_emails) > 1)
            /\ TaggedOnceIf(Get(Lookup(merged_customers, k), "Notes"),
                   INVALID_EMAIL_PARTS,
                   \E r \in MatchingRows(k) : split_emails(r["EMAIL"]).has_invalid)

\* the Notes the claim gives a new row: its inherited tags, each once
InheritedTags(several, invalid) ==
    IF several /\ invalid THEN DUPLICATE \o NoteSep \o INVALID_EMAIL_PARTS
    ELSE IF several THEN DUPLICATE
    ELSE IF invalid THEN INVALID_EMAIL_PARTS
    ELSE <<>>

\* C6: the row made for an address that is not yet a key has Notes equal to
\* its inherited tags, each once: nothing, DUPLICATE, INVALID EMAIL PARTS, or
\* DUPLICATE; INVALID EMAIL PARTS.
C6_NewRowNotesAreInheritedTags ==
    [][ (AtAddress /\ i' = i + 1 /\ AddressKey \notin Keys(merged_customers)) =>
          Get(Lookup(merged_customers', AddressKey), "Notes") =
              InheritedTags(Len(valid_emails) > 1, has_invalid)
      ]_vars

\* row c2 is row c1 but for its Notes
SameButNotes(c1, c2) ==
    /\ DOMAIN c2 = DOMAIN c1 \cup {"Notes"}
    /\ \A f \in DOMAIN c1 \ {"Notes"} : c2[f] = c1[f]

\* C7: merging an address into an existing keyed row whose display name is
\* not empty changes the Notes of that row and nothing else: not its other
\* fields, not another keyed row, not the no-email rows or the accumulator.
C7_MatchChangesOnlyNotes ==
    [][ (/\ AtAddress /\ i' = i + 1
         /\ AddressKey \in Keys(merged_customers)
         /\ Truthy(Lookup(merged_customers, AddressKey), "NAME")) =>
          /\ DOMAIN merged_customers' = DOMAIN merged_customers
          /\ \A n \in DOMAIN merged_customers :
                /\ merged_customers'[n].key = merged_customers[n].key
                /\ IF merged_customers[n].key = AddressKey
                   THEN /\ SameButNotes(merged_customers[n].row,
                                        merged_customers'[n].row)
                        /\ merged_customers'[n].row["Notes"] #
                               Get(merged_customers[n].row, "Notes")
                   ELSE merged_customers'[n] = merged_customers[n]
          /\ UNCHANGED <<no_email_rows, no_email_consolidated>>
      ]_vars

\* C7 witness: a keyed row of the existing file carries the customer note of
\* an incoming row with another display name, and still its own display name
\* and the names backfilled from it.
C7_Witness ==
    \E c \in Range(merged_customers) : \E x \in Range(existing_rows) :
      \E r \in NewRowsWithEmail :
        /\ c.key = lower(x["EMAIL"])
        /\ "NAME" \in DOMAIN r
        /\ x["NAME"] # <<>> /\ r["NAME"] # <<>> /\ r["NAME"] # x["NAME"]
        /\ c.row["NAME"] = x["NAME"]
        /\ <<c.row["LAST_NAME"], c.row["FIRST_NAME"]>> = split_name(x["NAME"])
        /\ Contains(Get(c.row, "Notes"), CustomerNote(r["NAME"], r["COMPANY_NAME"]))

\* a row of the new file without a usable email: the field is absent or
\* empty, or holds no valid address
Unusable(r) ==
    ~Truthy(r, "EMAIL") \/ split_emails(r["EMAIL"]).valid_emails = <<>>
\* this step reads a row of the new file
ReadsNewRow == pc = "fold" /\ Len(new_rows') = Len(new_rows) + 1

\* C8: there is at most one accumulator; the first row without a usable
\* email seeds it with its name and company, a later one leaves it as it is,
\* and no such row adds to or changes the merged map.
C8_FirstUnusableRowSeedsAccumulator ==
    [][ /\ no_email_consolidated # None =>
               no_email_consolidated' = no_email_consolidated
        /\ Len(no_email_consolidated') <= 1
        /\ (ReadsNewRow /\ Unusable(row')) =>
               /\ merged_customers' = merged_customers
               /\ no_email_consolidated' # None
               /\ no_email_consolidated = None =>
                     /\ Get(no_email_consolidated'[1], "NAME") = Get(row', "NAME")
                     /\ Get(no_email_consolidated'[1], "COMPANY_NAME") =
                            Get(row', "COMPANY_NAME")
        /\ ~(ReadsNewRow /\ Unusable(row')) =>
               no_email_consolidated' = no_email_consolidated
      ]_vars

\* C8 witness: two rows without a usable email and with different names were
\* read, and the accumulator has the name of the first.
C8_Witness ==
    /\ Len(new_rows) >= 2
    /\ Unusable(new_rows[1]) /\ Unusable(new_rows[2])
    /\ new_rows[1]["NAME"] # new_rows[2]["NAME"]
    /\ no_email_consolidated # None
    /\ no_email_consolidated[1]["NAME"] = new_rows[1]["NAME"]

\* C9: once the new file is processed, the Notes of the accumulator have
\* MISSING EMAIL if some row had no or an empty EMAIL field, and INVALID EMAIL
\* if some row had a non-empty EMAIL field with no valid address.
C9_AccumulatorHasBothTags ==
    (AfterFold /\ no_email_consolidated # None) =>
        /\ (\E r \in Range(new_rows) : ~Truthy(r, "EMAIL")) =>
               TagCount(no_email_consolidated[1]["Notes"], MISSING_EMAIL) >= 1
        /\ (\E r \in NewRowsWithEmail : Unusable(r)) =>
               TagCount(no_email_consolidated[1]["Notes"], INVALID_EMAIL) >= 1

\* C10: at the end of the new file, with an accumulator and a no-email row of
\* the existing file, the customer note of the accumulator is appended to the
\* Notes of the first no-email row, the other no-email rows stay as they are
\* and none is added; with an accumulator and no such row, the accumulator
\* becomes the single no-email row; with no accumulator the no-email rows
\* stay as they are.
C10_AccumulatorJoinsNoEmailRows ==
    [][ (pc = "fold" /\ pc' = "bounced") =>
          IF no_email_consolidated = None
          THEN no_email_rows' = no_email_rows
          ELSE IF no_email_rows = <<>>
          THEN no_email_rows' = <<no_email_consolidated[1]>>
          ELSE /\ Len(no_email_rows') = Len(no_email_rows)
               /\ \A n \in 2..Len(no_email_rows) :
                     no_email_rows'[n] = no_email_rows[n]
               /\ no_email_rows'[1]["Notes"] =
                     AppendNote(no_email_rows[1],
                         CustomerNote(Get(no_email_consolidated[1], "NAME"),
                                      Get(no_email_consolidated[1], "COMPANY_NAME"))
                     )["Notes"]
      ]_vars

\* C10 witness: the merge is done, the existing file gave two no-email rows,
\* the first has the customer note of the accumulator and the second has no
\* Notes.
C10_Witness ==
    /\ pc = "done"
    /\ no_email_consolidated # None
    /\ Len(no_email_rows) = 2
    /\ Get(no_email_rows[1], "Notes") =
           CustomerNote(no_email_consolidated[1]["NAME"],
                        no_email_consolidated[1]["COMPANY_NAME"])
    /\ "Notes" \notin DOMAIN no_email_rows[2]

\* the rows of the existing file kept as no-email rows, in file order
InvalidEmailRow(r) == Truthy(r, "EMAIL") /\ ~is_valid_email(lower(r["EMAIL"]))
\* the row of the existing file kept under key k: the last one with that key
KeyedRowOf(k) ==
    existing_rows[Max({n \in DOMAIN existing_rows :
        /\ Truthy(existing_rows[n], "EMAIL")
        /\ lower(existing_rows[n]["EMAIL"]) = k})]
\* a row with a display name and without a first or a last name
NeedsBackfill(r) ==
    Truthy(r, "NAME") /\ (~Truthy(r, "FIRST_NAME") \/ ~Truthy(r, "LAST_NAME"))
\* x carries the names that split_name gives for the display name of r
HasNamesOf(x, r) ==
    /\ Get(x, "LAST_NAME") = split_name(r["NAME"])[1]
    /\ Get(x, "FIRST_NAME") = split_name(r["NAME"])[2]
\* the existing file is loaded and backfilled, the new file not yet begun
AfterBackfill == pc = "fold" /\ new_rows = <<>>

\* C11 as stated: after the load and the backfill, every retained row of the
\* existing file, keyed or no-email, that had a display name and lacked a first
\* or a last name carries the names split_name gives for its display name.
C11_EveryRetainedRowBackfilled ==
    AfterBackfill =>
        /\ \A n \in DOMAIN merged_customers :
              NeedsBackfill(KeyedRowOf(merged_customers[n].key))
                  => HasNamesOf(merged_customers[n].row,
                                KeyedRowOf(merged_customers[n].key))
        /\ \A n \in DOMAIN no_email_rows :
              NeedsBackfill(SelectSeq(existing_rows, InvalidEmailRow)[n])
                  => HasNamesOf(no_email_rows[n],
                                SelectSeq(existing_rows, InvalidEmailRow)[n])

\* C11, the keyed rows alone: the part of the statement the backfill loop
\* over merged_customers does establish.
C11_KeyedRowsBackfilled ==
    AfterBackfill =>
        \A n \in DOMAIN merged_customers :
            NeedsBackfill(KeyedRowOf(merged_customers[n].key))
                => HasNamesOf(merged_customers[n].row,
                              KeyedRowOf(merged_customers[n].key))

\* a sequence without its repetitions, each element where it first occurs
RECURSIVE FirstSeen(_)
FirstSeen(s) ==
    IF s = <<>> THEN <<>>
    ELSE LET front == FirstSeen(SubSeq(s, 1, Len(s) - 1))
         IN  IF s[Len(s)] \in Range(front) THEN front
             ELSE Append(front, s[Len(s)])
\* the rows of the existing file that key the merged map, in file order
ValidEmailRow(r) == Truthy(r, "EMAIL") /\ is_valid_email(lower(r["EMAIL"]))
\* their keys, in file order
ExistingKeySeq ==
    [n \in DOMAIN SelectSeq(existing_rows, ValidEmailRow) |->
        lower(SelectSeq(existing_rows, ValidEmailRow)[n]["EMAIL"])]
\* the lower-cased valid addresses of a sequence of incoming rows, row by row
\* and left to right within a row
RECURSIVE AddressKeySeq(_)
AddressKeySeq(rows) ==
    IF rows = <<>> THEN <<>>
    ELSE (IF Truthy(Head(rows), "EMAIL")
          THEN [n \in DOMAIN split_emails(Head(rows)["EMAIL"]).valid_emails |->
                   lower(split_emails(Head(rows)["EMAIL"]).valid_emails[n])]
          ELSE <<>>)
         \o AddressKeySeq(Tail(rows))
\* the keys in the order of their first insertion
InsertionOrder == FirstSeen(ExistingKeySeq \o AddressKeySeq(new_rows))
\* the no-email rows the existing file produced, in file order
ExistingNoEmailRows == SelectSeq(existing_rows, InvalidEmailRow)

\* the output lists the keyed rows in the order of first insertion of their
\* keys, then the no-email rows: those of the existing file in file order
\* (the first one possibly completed from the accumulator), or else the
\* accumulator alone
OutputInOrder ==
    pc = "done" =>
        /\ Len(output) = Len(InsertionOrder) + Len(no_email_rows)
        /\ \A n \in DOMAIN InsertionOrder :
              lower(output[n]["EMAIL"]) = InsertionOrder[n]
        /\ \A n \in DOMAIN no_email_rows :
              output[Len(InsertionOrder) + n]["EMAIL"] = NO_EMAIL
        /\ IF ExistingNoEmailRows # <<>>
           THEN /\ Len(no_email_rows) = Len(ExistingNoEmailRows)
                /\ \A n \in DOMAIN ExistingNoEmailRows :
                      /\ output[Len(InsertionOrder) + n]["CAR"]
                             = ExistingNoEmailRows[n]["CAR"]
                      /\ \/ output[Len(InsertionOrder) + n]["NAME"]
                                = ExistingNoEmailRows[n]["NAME"]
                         \/ n = 1 /\ ExistingNoEmailRows[n]["NAME"] = <<>>
           ELSE Len(no_email_rows) = IF no_email_consolidated = None THEN 0 ELSE 1
\* a step leaves every key of the merged map where it is
KeysStay ==
    \A n \in DOMAIN merged_customers :
        /\ n \in DOMAIN merged_customers'
        /\ merged_customers'[n].key = merged_customers[n].key

\* C12: the output lists the keyed rows first, in the order in which their
\* keys were first inserted (keys of the existing file, then keys introduced
\* by the new file), then the no-email rows in the order they were produced;
\* and no step moves the row of a key that is re-inserted or updated.
C12_OutputOrder == []OutputInOrder /\ [][KeysStay]_vars

\* C12 witness: the output has two keyed rows and a no-email row after them,
\* the first key was inserted by the existing file and updated by an incoming
\* row that came after the row that introduced the second key.
C12_Witness ==
    /\ pc = "done"
    /\ Len(merged_customers) = 2
    /\ no_email_rows # <<>>
    /\ merged_customers[1].key \in ExistingKeys
    /\ merged_customers[2].key \notin ExistingKeys
    /\ Len(new_rows) = 2
    /\ \A n \in 1..2 : Truthy(new_rows[n], "EMAIL")
    /\ merged_customers[2].key \in AddressKeys(new_rows[1])
    /\ merged_customers[1].key \in AddressKeys(new_rows[2])
    /\ output[3]["EMAIL"] = NO_EMAIL

\* the fold computed from the two files agrees with the fold done step by step
FoldAgreesWithSteps ==
    pc = "bounced" =>
        /\ ~MergedTable(existing_rows, new_rows).error
        /\ merged_customers = MergedTable(existing_rows, new_rows).customers
        /\ no_email_rows = MergedTable(existing_rows, new_rows).no_email_rows
        /\ no_email_consolidated = MergedTable(existing_rows, new_rows).acc
        /\ row = MergedTable(existing_rows, new_rows).row
        /\ valid_emails = MergedTable(existing_rows, new_rows).valid_emails
        /\ has_invalid = MergedTable(existing_rows, new_rows).has_invalid
\* and a run that raised KeyError is one whose fold has the error, with the
\* locals as the loop left them: the accumulator has not joined the no-email
\* rows
ErrorAgreesWithSteps ==
    pc = "error" =>
        /\ MergedTable(existing_rows, new_rows).error
        /\ merged_customers = MergedTable(existing_rows, new_rows).customers
        /\ no_email_rows = MergedTable(existing_rows, new_rows).no_email_rows
        /\ no_email_consolidated = MergedTable(existing_rows, new_rows).acc

\* an auxiliary file was given and read to its end
Readable(file) == file # None /\ ~file[1].error
\* an auxiliary file was given and reading it raised
Unreadable(file) == file # None /\ file[1].error
\* the values of the first column of a file whose header contains "email" in
\* any letter case
EmailColumnValues(file) ==
    IF \E c \in DOMAIN file.fieldnames :
           Contains(lower(file.fieldnames[c]), <<"e","m","a","i","l">>)
    THEN LET first == Min({c \in DOMAIN file.fieldnames :
                 Contains(lower(file.fieldnames[c]), <<"e","m","a","i","l">>)})
         IN  {file.rows[n][first] : n \in DOMAIN file.rows}
    ELSE {}
\* the values of that column that are valid addresses once lower-cased
LowerCasedValid(file) ==
    IF Readable(file)
    THEN {lower(v) : v \in {x \in EmailColumnValues(file[1]) :
                                is_valid_email(lower(x))}}
    ELSE {}
\* the values of that column that are valid addresses once lower-cased and
\* stripped of the whitespace around them
FirstColumnStrippedValid(file) ==
    IF Readable(file)
    THEN {strip(lower(v)) : v \in {x \in EmailColumnValues(file[1]) :
                                      is_valid_email(strip(lower(x)))}}
    ELSE {}
\* the values read under the name of that column: those of the last column
\* of the file whose header is the same name
NamedColumnValues(file) ==
    IF \E c \in DOMAIN file.fieldnames :
           Contains(lower(file.fieldnames[c]), <<"e","m","a","i","l">>)
    THEN LET first == Min({c \in DOMAIN file.fieldnames :
                 Contains(lower(file.fieldnames[c]), <<"e","m","a","i","l">>)})
             last == Max({c \in DOMAIN file.fieldnames :
                 file.fieldnames[c] = file.fieldnames[first]})
         IN  {file.rows[n][last] : n \in DOMAIN file.rows}
    ELSE {}
\* the values read under that name that are valid addresses once lower-cased
\* and stripped of the whitespace around them
StrippedLowerCasedValid(file) ==
    IF Readable(file)
    THEN {strip(lower(v)) : v \in {x \in NamedColumnValues(file[1]) :
                                      is_valid_email(strip(lower(x)))}}
    ELSE {}
\* the keyed rows whose key is in the set
RowsIn(emails) == {n \in DOMAIN merged_customers : merged_customers[n].key \in emails}

\* C13 as stated: once the bounced pass has run, running it again on the same
\* merged table changes nothing, and every row whose key is in the bounced
\* set has then exactly one Bounced entry in its Notes.
C13_SecondBouncedPassChangesNothing ==
    pc = "unsubscribed" =>
        /\ AnnotatedCustomers(merged_customers, bounced_file, BOUNCED)
               = merged_customers
        /\ \A n \in RowsIn(StrippedLowerCasedValid(bounced_file)) :
              TagCount(Get(AnnotatedCustomers(merged_customers, bounced_file,
                                              BOUNCED)[n].row, "Notes"),
                       BOUNCED) = 1

\* the Notes of a row after a tag is appended to them
NotesWithTag(r, tag) ==
    IF Get(r, "Notes") # <<>> THEN r["Notes"] \o NoteSep \o tag ELSE tag
\* a pass appends the tag to the Notes of the keyed rows whose key is in the
\* set and changes nothing else: no key, no other field, no other keyed row,
\* no no-email row
PassEffect(tag, emails) ==
    /\ Len(merged_customers') = Len(merged_customers)
    /\ \A n \in DOMAIN merged_customers :
          /\ merged_customers'[n].key = merged_customers[n].key
          /\ merged_customers'[n].row =
                 IF merged_customers[n].key \in emails
                 THEN Put(merged_customers[n].row, "Notes",
                          NotesWithTag(merged_customers[n].row, tag))
                 ELSE merged_customers[n].row
    /\ no_email_rows' = no_email_rows
\* the tags of the sets a key is in, in the order of the passes
TagsOf(k, bounced, unsubscribed, no_vehicle) ==
    (IF k \in bounced THEN <<BOUNCED>> ELSE <<>>)
    \o (IF k \in unsubscribed THEN <<UNSUBSCRIBED>> ELSE <<>>)
    \o (IF k \in no_vehicle THEN <<NO_VEHICLE>> ELSE <<>>)
\* the last entries of the Notes are these tags
EndsWithTags(notes, tags) ==
    /\ Len(NoteEntries(notes)) >= Len(tags)
    /\ \A n \in DOMAIN tags :
          NoteEntries(notes)[Len(NoteEntries(notes)) - Len(tags) + n] = tags[n]
\* after the passes the Notes of every keyed row end with the tags of the
\* sets its key is in, in the order Bounced, Unsubscribed, No Vehicle
TagsInPassOrder(bounced, unsubscribed, no_vehicle) ==
    pc \in {"write", "done", "write_error"} =>
        \A n \in DOMAIN merged_customers :
            EndsWithTags(Get(merged_customers[n].row, "Notes"),
                         TagsOf(merged_customers[n].key, bounced, unsubscribed,
                                no_vehicle))
\* each pass has the effect of its tag on the set of its file
PassesMarkSets(bounced, unsubscribed, no_vehicle) ==
    /\ pc = "bounced" => PassEffect(BOUNCED, bounced)
    /\ pc = "unsubscribed" => PassEffect(UNSUBSCRIBED, unsubscribed)
    /\ pc = "no_vehicle" => PassEffect(NO_VEHICLE, no_vehicle)

\* C14 as stated: a pass appends its tag to the Notes of a keyed row if and
\* only if the row's key is among the lower-cased valid addresses of the
\* first column of the auxiliary file whose header contains "email"; it
\* changes nothing else, and the tags of a key in several sets come in the
\* order Bounced, Unsubscribed, No Vehicle.
C14_PassMarksLowerCasedValid ==
    /\ []TagsInPassOrder(LowerCasedValid(bounced_file),
                         LowerCasedValid(unsubscribed_file),
                         LowerCasedValid(no_vehicle_file))
    /\ [][PassesMarkSets(LowerCasedValid(bounced_file),
                         LowerCasedValid(unsubscribed_file),
                         LowerCasedValid(no_vehicle_file))]_vars

\* C14 with the stripping alone: the same, for the addresses of that first
\* column that are valid once lower-cased and stripped of the whitespace
\* around them; a header that carries the name of the column twice refutes it.
C14_PassMarksFirstColumnStripped ==
    /\ []TagsInPassOrder(FirstColumnStrippedValid(bounced_file),
                         FirstColumnStrippedValid(unsubscribed_file),
                         FirstColumnStrippedValid(no_vehicle_file))
    /\ [][PassesMarkSets(FirstColumnStrippedValid(bounced_file),
                         FirstColumnStrippedValid(unsubscribed_file),
                         FirstColumnStrippedValid(no_vehicle_file))]_vars

\* what a pass does instead: it marks the addresses, valid once lower-cased
\* and stripped, that the rows hold under the name of the first header with
\* "email", which for a name the header carries twice are those of the last
\* column of that name.
C14_PassMarksStrippedLowerCasedValid ==
    /\ []TagsInPassOrder(StrippedLowerCasedValid(bounced_file),
                         StrippedLowerCasedValid(unsubscribed_file),
                         StrippedLowerCasedValid(no_vehicle_file))
    /\ [][PassesMarkSets(StrippedLowerCasedValid(bounced_file),
                         StrippedLowerCasedValid(unsubscribed_file),
                         StrippedLowerCasedValid(no_vehicle_file))]_vars

\* a run of the three passes: the run is done; the bounced file has two columns with
\* "email" in the header; one keyed row is in the three sets and its Notes end
\* with the three tags in order; another keyed row is in the unsubscribed set
\* alone, though the second "email" column of the bounced file names it, and
\* has that tag alone.
C14_Witness ==
    /\ pc = "done"
    /\ Readable(bounced_file) /\ Readable(unsubscribed_file)
    /\ Readable(no_vehicle_file)
    /\ Cardinality(EmailColumns(bounced_file[1].fieldnames)) >= 2
    /\ \E n \in DOMAIN merged_customers :
          /\ merged_customers[n].key \in StrippedLowerCasedValid(bounced_file)
          /\ merged_customers[n].key \notin LowerCasedValid(bounced_file)
          /\ EndsWithTags(merged_customers[n].row["Notes"],
                          <<BOUNCED, UNSUBSCRIBED, NO_VEHICLE>>)
    /\ \E n \in DOMAIN merged_customers :
          /\ merged_customers[n].key \notin StrippedLowerCasedValid(bounced_file)
          /\ \E m \in DOMAIN bounced_file[1].rows :
                merged_customers[n].key \in Range(bounced_file[1].rows[m])
          /\ TagCount(merged_customers[n].row["Notes"], BOUNCED) = 0
          /\ TagCount(merged_customers[n].row["Notes"], UNSUBSCRIBED) = 1

\* a pass whose file could not be read changes no row
FailedPassChangesNothing ==
    /\ (pc = "bounced" /\ Unreadable(bounced_file))
           => merged_customers' = merged_customers /\ no_email_rows' = no_email_rows
    /\ (pc = "unsubscribed" /\ Unreadable(unsubscribed_file))
           => merged_customers' = merged_customers /\ no_email_rows' = no_email_rows
    /\ (pc = "no_vehicle" /\ Unreadable(no_vehicle_file))
           => merged_customers' = merged_customers /\ no_email_rows' = no_email_rows
\* no keyed row has the tag of a file that could not be read, and every keyed
\* row named by a file that could be read has the tag of that file
TaggedByReadableFiles(file, tag) ==
    \A n \in DOMAIN merged_customers :
        /\ Unreadable(file) =>
               TagCount(Get(merged_customers[n].row, "Notes"), tag) = 0
        /\ (Readable(file)
            /\ merged_customers[n].key \in StrippedLowerCasedValid(file)) =>
               TagCount(Get(merged_customers[n].row, "Notes"), tag) = 1
\* the output has every keyed row and every no-email row, with the Notes the
\* passes gave them
OutputHasAllRows ==
    /\ Len(output) = Len(merged_customers) + Len(no_email_rows)
    /\ \A n \in DOMAIN merged_customers :
          /\ lower(output[n]["EMAIL"]) = merged_customers[n].key
          /\ output[n]["Notes"] = Get(merged_customers[n].row, "Notes")
    /\ \A n \in DOMAIN no_email_rows :
          output[Len(merged_customers) + n]["EMAIL"] = NO_EMAIL
\* the state of the run once the output is written
WrittenDespiteFailures ==
    pc = "done" =>
        /\ TaggedByReadableFiles(bounced_file, BOUNCED)
        /\ TaggedByReadableFiles(unsubscribed_file, UNSUBSCRIBED)
        /\ TaggedByReadableFiles(no_vehicle_file, NO_VEHICLE)
        /\ OutputHasAllRows

\* C15: when reading an auxiliary file fails, at the start or after some of
\* its rows were read, no row gets the tag of that category, the tags of the
\* other categories are applied, and the output is written with every merged
\* row.
C15_FailedFileSkipsItsCategory ==
    []WrittenDespiteFailures /\ [][FailedPassChangesNothing]_vars

\* C15 witness: the output is written; reading the bounced file failed after
\* a row that names a keyed row was read, the unsubscribed file was missing,
\* and that keyed row has the tag of the no-vehicle file and no other.
C15_Witness ==
    /\ pc = "done"
    /\ Unreadable(bounced_file) /\ Unreadable(unsubscribed_file)
    /\ Readable(no_vehicle_file)
    /\ \E n \in DOMAIN merged_customers :
          /\ merged_customers[n].key \in aux_emails(bounced_file[1])
          /\ merged_customers[n].key \in aux_emails(no_vehicle_file[1])
          /\ EndsWithTags(merged_customers[n].row["Notes"], <<NO_VEHICLE>>)
          /\ TagCount(merged_customers[n].row["Notes"], BOUNCED) = 0
          /\ TagCount(output[n]["Notes"], NO_VEHICLE) = 1
    /\ no_email_rows # <<>>

\* an incoming row without one of the three expected columns
LacksColumn(r) ==
    "EMAIL" \notin DOMAIN r \/ "NAME" \notin DOMAIN r
        \/ "COMPANY_NAME" \notin DOMAIN r
\* some row read from the new file lacks a column
SomeRowLacksColumn == \E n \in DOMAIN new_rows : LacksColumn(new_rows[n])

\* C16 as stated: once a row without one of the expected columns is read, the
\* run goes no further than that row: no later row is read, the row is not
\* put in the accumulator, the run does not pass the loop over the new file,
\* and no output is written.
C16_MissingColumnAborts ==
    SomeRowLacksColumn =>
        /\ LacksColumn(new_rows[Len(new_rows)])
        /\ \A n \in 1..(Len(new_rows) - 1) : ~LacksColumn(new_rows[n])
        /\ ~AfterFold
        /\ output = <<>>
        /\ \/ no_email_consolidated = None
           \/ no_email_consolidated[1]["NAME"] # Get(new_rows[Len(new_rows)], "NAME")

\* C16, the part that holds: a row with a valid address and without a NAME
\* (or COMPANY_NAME) field ends the run before anything is merged or written.
C16_MissingNameAborts ==
    (\E n \in DOMAIN new_rows :
        /\ Truthy(new_rows[n], "EMAIL")
        /\ split_emails(new_rows[n]["EMAIL"]).valid_emails # <<>>
        /\ ~HasNameColumns(new_rows[n]))
    => /\ ~AfterFold
       /\ output = <<>>
       /\ ~HasNameColumns(new_rows[Len(new_rows)])
       /\ pc = "error" \/ (pc = "fold" /\ i = 0)

\* where the pieces of s between runs of separators begin
PieceStarts(s) ==
    {p \in DOMAIN s : s[p] \notin Separators /\ (p = 1 \/ s[p - 1] \in Separators)}
\* where the piece that begins at p ends
PieceEnd(s, p) == Max({q \in p..Len(s) : \A x \in p..q : s[x] \notin Separators})
\* the non-empty pieces of s between runs of ';', ',', whitespace and '/',
\* from left to right
RECURSIVE PiecesFrom(_, _)
PiecesFrom(s, starts) ==
    IF starts = {} THEN <<>>
    ELSE <<SubSeq(s, Min(starts), PieceEnd(s, Min(starts)))>>
         \o PiecesFrom(s, starts \ {Min(starts)})
Pieces(s) == PiecesFrom(s, PieceStarts(s))

\* C17: split_emails(raw) returns the valid pieces of raw in their order from
\* left to right, repeated addresses kept, where the pieces are the non-empty
\* stretches between runs of ';', ',', whitespace and '/'; the flag is true
\* exactly when some piece is not a valid email; the empty string gives
\* ([], false), and "a@b.com; bad, c@d.com" gives (["a@b.com", "c@d.com"], true).
C17_SplitEmailsKeepsValidPieces ==
    pc = "returned" =>
        /\ returned[1].valid_emails = SelectSeq(Pieces(argument), is_valid_email)
        /\ returned[1].has_invalid =
               (\E n \in DOMAIN Pieces(argument) : ~is_valid_email(Pieces(argument)[n]))
        /\ argument = <<>> =>
               returned[1] = [valid_emails |-> <<>>, has_invalid |-> FALSE]
        /\ argument = <<"a","@","b",".","c","o","m",";"," ","b","a","d",","," ",
                        "c","@","d",".","c","o","m">> =>
               returned[1] = [valid_emails |-> << <<"a","@","b",".","c","o","m">>,
                                                  <<"c","@","d",".","c","o","m">> >>,
                              has_invalid |-> TRUE]

\* C17 witness: split_emails returned the same address twice, for a string
\* that has it twice with a run of two separators between.
C17_Witness ==
    /\ pc = "returned"
    /\ Len(argument) >= 14
    /\ returned[1].has_invalid = FALSE
    /\ Len(returned[1].valid_emails) = 2
    /\ returned[1].valid_emails[1] = returned[1].valid_emails[2]

\* where s has ", "
CommaSpaces(s) == {p \in 1..(Len(s) - 1) : s[p] = "," /\ s[p + 1] = " "}
\* the text of s before its last ", " and the text after it
BeforeLastComma(s) == SubSeq(s, 1, Max(CommaSpaces(s)) - 1)
AfterLastComma(s) == SubSeq(s, Max(CommaSpaces(s)) + 2, Len(s))
\* a name and what split_name has to return for it
NameExample(name, last_name, first_name) ==
    argument = name => returned[1] = <<last_name, first_name>>

\* C18: for a name that contains ", ", split_name splits at the last ", ":
\* the last name is the cleaned and capitalized text before it, earlier
\* commas included, and the first name comes from the text after it alone
\* (the same as for a name made of a one-letter last name and that text);
\* "Smith, Jones, Bob" gives ("Smith, Jones", "Bob"), "Smith, John" gives
\* ("Smith", "John") and "O'Neil, Sean, Jr" gives ("O'Neil, Sean", "Jr").
C18_SplitAtLastComma ==
    (pc = "returned" /\ CommaSpaces(argument) # {}) =>
        /\ returned[1][1] = title(clean_name_part(strip(BeforeLastComma(argument))))
        /\ returned[1][2] =
               split_name(<<"Z", ",", " ">> \o AfterLastComma(argument))[2]
        /\ CommaSpaces(AfterLastComma(argument)) = {}
        /\ NameExample(<<"S","m","i","t","h",","," ","J","o","n","e","s",","," ",
                         "B","o","b">>,
                       <<"S","m","i","t","h",","," ","J","o","n","e","s">>,
                       <<"B","o","b">>)
        /\ NameExample(<<"S","m","i","t","h",","," ","J","o","h","n">>,
                       <<"S","m","i","t","h">>, <<"J","o","h","n">>)
        /\ NameExample(<<"O","'","N","e","i","l",","," ","S","e","a","n",","," ",
                         "J","r">>,
                       <<"O","'","N","e","i","l",","," ","S","e","a","n">>,
                       <<"J","r">>)

\* C18 witness: split_name returned a last name with a comma in it and a
\* non-empty first name, for a name with ", " twice.
C18_Witness ==
    /\ pc = "returned"
    /\ Cardinality(CommaSpaces(argument)) = 2
    /\ CommaSpaces(returned[1][1]) # {}
    /\ returned[1][2] # <<>>
    /\ CommaSpaces(returned[1][2]) = {}

\* the first-name candidate of a name: the text after the last ", ",
\* stripped; for a name without ", " the name itself
FirstNameCandidate(name) ==
    IF CommaSpaces(name) # {} THEN strip(AfterLastComma(name)) ELSE strip(name)
\* the candidate with the formal word and the parenthesized nickname replaced
\* by the nickname, the text before and the text after kept
NicknameInPlace(candidate, match) ==
    strip(Before(candidate, match.start)) \o
    (IF strip(Before(candidate, match.start)) # <<>> THEN <<" ">> ELSE <<>>) \o
    match.nickname \o
    (IF strip(After(candidate, match.end)) # <<>> THEN <<" ">> ELSE <<>>) \o
    strip(After(candidate, match.end))
\* the name that split_name returns for a first-name candidate in which the
\* nickname replaces the formal word and nothing else
FirstNameWithNickname(candidate) ==
    title(clean_name_part(NicknameInPlace(candidate, NicknameSearch(candidate))))
\* the candidate has a word followed by a parenthesized word
HasNickname(candidate) == NicknameSearch(candidate).start # 0

\* C19 as stated: when the first-name candidate has a word followed by a
\* parenthesized word, the returned first name is the candidate with the
\* nickname in the place of the formal word and its parentheses: the text
\* before the formal word and the text after the closing parenthesis are
\* both kept.
C19_NicknameReplacesFormalWordOnly ==
    (pc = "returned" /\ HasNickname(FirstNameCandidate(argument))) =>
        returned[1][2] = FirstNameWithNickname(FirstNameCandidate(argument))

\* C19, the part that holds: the returned first name is the nickname followed
\* by the text after the closing parenthesis.
C19_NicknameThenRemainder ==
    (pc = "returned" /\ HasNickname(FirstNameCandidate(argument))) =>
        returned[1][2] =
            title(clean_name_part(
                NicknameAndRemainder(
                    NicknameSearch(FirstNameCandidate(argument)).nickname,
                    strip(After(FirstNameCandidate(argument),
                                NicknameSearch(FirstNameCandidate(argument)).end)))))

\* a token with a digit, or with two adjacent letters x in any letter case
NoiseToken(t) ==
    \/ \E p \in DOMAIN t : t[p] \in Digits
    \/ \E p \in 1..(Len(t) - 1) : t[p] \in {"x", "X"} /\ t[p + 1] \in {"x", "X"}
CleanToken(t) == ~NoiseToken(t)
\* the tokens of a string between whitespace
Tokens(s) == SplitWords(s)
\* the last-name and the first-name candidate that split_name cleans: the
\* texts around the last ", ", the first with the nickname and the text
\* after it when there is one; without ", ", the text before the nickname
\* and the nickname with the text after it, or the whole name and nothing
LastCandidate(name) ==
    IF CommaSpaces(name) # {} THEN strip(BeforeLastComma(name))
    ELSE IF HasNickname(name)
    THEN strip(Before(name, NicknameSearch(name).start))
    ELSE strip(name)
FirstCandidate(name) ==
    IF CommaSpaces(name) # {} /\ ~HasNickname(strip(AfterLastComma(name)))
    THEN strip(AfterLastComma(name))
    ELSE IF HasNickname(FirstNameCandidate(name))
    THEN NicknameAndRemainder(
             NicknameSearch(FirstNameCandidate(name)).nickname,
             strip(After(FirstNameCandidate(name),
                         NicknameSearch(FirstNameCandidate(name)).end)))
    ELSE <<>>
\* the part has the clean tokens of the candidate, in order, with one space
\* between them, and no other token; it is these in title case
CleanedFrom(part, candidate) ==
    /\ \A n \in DOMAIN Tokens(part) : CleanToken(Tokens(part)[n])
    /\ part = title(Join(SelectSeq(Tokens(candidate), CleanToken), <<" ">>))

\* each returned part is its candidate without the noise tokens, and
\* "XXXX 123" gives ("", "")
PartsCleaned ==
    /\ CleanedFrom(returned[1][1], LastCandidate(argument))
    /\ CleanedFrom(returned[1][2], FirstCandidate(argument))
    /\ NameExample(<<"X","X","X","X"," ","1","2","3">>, <<>>, <<>>)
\* every token of the name has a digit or XX
OnlyNoiseTokens(name) ==
    \A n \in DOMAIN Tokens(name) : NoiseToken(Tokens(name)[n])

\* C20 as stated: no part returned by split_name has a token with a digit or
\* with XX in any letter case: each part is made of the tokens of its
\* candidate without exactly those tokens, in order, joined by single spaces;
\* a name of such tokens alone, like "XXXX 123", gives ("", "").
C20_NoiseTokensDropped ==
    pc = "returned" =>
        /\ PartsCleaned
        /\ OnlyNoiseTokens(argument) => returned[1] = << <<>>, <<>> >>

\* C20 amended: the same, where a name of noise tokens alone gives ("", "")
\* when it has no word followed by a parenthesized word: a nickname is taken
\* out of its token before the cleaning.
C20_NoiseTokensDroppedAfterNickname ==
    pc = "returned" =>
        /\ PartsCleaned
        /\ (OnlyNoiseTokens(argument) /\ ~HasNickname(FirstNameCandidate(argument)))
               => returned[1] = << <<>>, <<>> >>

\* C20 witness: split_name returned a last and a first name for a name with
\* ", " of which it dropped a token with xX and a token with a digit.
C20_Witness ==
    /\ pc = "returned"
    /\ CommaSpaces(argument) # {}
    /\ returned[1][1] # <<>> /\ returned[1][2] # <<>>
    /\ \E n \in DOMAIN Tokens(argument) :
          /\ \A p \in DOMAIN Tokens(argument)[n] : Tokens(argument)[n][p] \notin Digits
          /\ ~Contains(Tokens(argument)[n], <<"X","X">>)
          /\ NoiseToken(Tokens(argument)[n])
    /\ Len(Tokens(argument)) > Len(Tokens(returned[1][1])) + Len(Tokens(returned[1][2]))

\* C20 witness of the noise-only case: a name of two noise tokens, one with
\* xX and one with a digit, and no nickname, for which split_name returned
\* two empty parts.
C20_NoiseOnlyWitness ==
    /\ pc = "returned"
    /\ Len(Tokens(argument)) = 2
    /\ OnlyNoiseTokens(argument)
    /\ ~HasNickname(FirstNameCandidate(argument))
    /\ returned[1] = << <<>>, <<>> >>

\* ---------------------------------------------------------------------
\* C21: capitalization of the returned name parts

\* a token with its first character upper-cased and the others lower-cased
Capitalized(t) == t = <<UpperChar(t[1])>> \o lower(Tail(t))
\* every token of the part is so written
TokensCapitalized(part) ==
    \A n \in DOMAIN Tokens(part) : Capitalized(Tokens(part)[n])
\* every letter of the part is a capital after a character that is no letter
\* (or at the start) and a small letter after a letter
CasedByPrecedingCharacter(part) ==
    \A p \in DOMAIN part :
        part[p] \in Cased =>
            IF p > 1 /\ part[p - 1] \in Cased
            THEN part[p] = LowerChar(part[p])
            ELSE part[p] = UpperChar(part[p])

\* C21: in both parts returned by split_name every token between whitespace
\* has its first character upper-cased and all its other characters
\* lower-cased, tokens with an apostrophe or a hyphen included.
C21_EveryTokenCapitalized ==
    pc = "returned" =>
        /\ TokensCapitalized(returned[1][1])
        /\ TokensCapitalized(returned[1][2])

\* what split_name does instead (str.title()): a letter is upper-cased
\* wherever the character before it is not a letter, so also after an
\* apostrophe, a hyphen, a comma or a parenthesis inside a token;
\* "a-b o'neil" gives ("A-B O'Neil", "").
C21_LettersCasedByPrecedingCharacter ==
    pc = "returned" =>
        /\ CasedByPrecedingCharacter(returned[1][1])
        /\ CasedByPrecedingCharacter(returned[1][2])
        /\ NameExample(<<"a","-","b"," ","o","'","n","e","i","l">>,
                       <<"A","-","B"," ","O","'","N","e","i","l">>, <<>>)

\* ---------------------------------------------------------------------
\* C22: the email field of a keyed row and its key

\* the merged map has only rows whose email field is their key
EmailFieldIsKey ==
    \A n \in DOMAIN merged_customers :
        Get(merged_customers[n].row, "EMAIL") = merged_customers[n].key
\* the merged map has only rows whose email field, lower-cased, is their key
LowerCasedEmailFieldIsKey ==
    \A n \in DOMAIN merged_customers :
        lower(Get(merged_customers[n].row, "EMAIL")) = merged_customers[n].key
\* the key was inserted by the load of the existing file
LoadedKey(k) ==
    \E r \in Range(existing_rows) : ValidEmailRow(r) /\ lower(r["EMAIL"]) = k

\* C22: in every state of the merge the email field of each keyed row is the
\* row's key, the lower-cased address, for rows loaded from the existing file
\* as for rows made from incoming rows; and so are the keyed rows written out.
C22_EmailFieldEqualsKey ==
    /\ EmailFieldIsKey
    /\ pc = "done" =>
           \A n \in DOMAIN merged_customers :
               output[n]["EMAIL"] = merged_customers[n].key

\* what the merge keeps instead: the email field of a keyed row, once
\* lower-cased, is its key; a row made from an incoming row carries the key
\* itself, a row loaded from the existing file the email as the file has it.
C22_LowerCasedEmailFieldEqualsKey ==
    /\ LowerCasedEmailFieldIsKey
    /\ \A n \in DOMAIN merged_customers :
           ~LoadedKey(merged_customers[n].key)
               => merged_customers[n].row["EMAIL"] = merged_customers[n].key
    /\ pc = "done" =>
           \A n \in DOMAIN merged_customers :
               output[n]["EMAIL"] = merged_customers[n].row["EMAIL"]

\* ---------------------------------------------------------------------
\* C23: first and last names that are already there

NameFields == {"FIRST_NAME", "LAST_NAME"}
\* the step leaves every non-empty name field of row r as it is in row x
NamesKeptIn(r, x) ==
    \A f \in NameFields : Truthy(r, f) => Get(x, f) = r[f]
\* the step leaves the non-empty name fields of every keyed row as they are
KeyedNamesKept ==
    \A n \in DOMAIN merged_customers :
        n \in DOMAIN merged_customers'
            => NamesKeptIn(merged_customers[n].row, merged_customers'[n].row)
\* the step leaves the non-empty name fields of every no-email row as they are
NoEmailNamesKept ==
    \A n \in DOMAIN no_email_rows :
        n \in DOMAIN no_email_rows'
            => NamesKeptIn(no_email_rows[n], no_email_rows'[n])
\* the steps named by the claim
BackfillStep == pc = "load" /\ pc' = "fold"
FoldStep == pc = "fold" /\ pc' = "fold"
AccumulatorStep == pc = "fold" /\ pc' = "bounced"
\* a row with both names
HasBothNames(r) == Truthy(r, "FIRST_NAME") /\ Truthy(r, "LAST_NAME")

\* C23: no step of the merge (the backfill of the existing rows, the fold of
\* an incoming row into an existing key, the merge of the accumulator into the
\* first no-email row) changes or empties a first-name or last-name field
\* that was not empty.
C23_NamesNeverOverwritten ==
    [][(BackfillStep \/ FoldStep \/ AccumulatorStep)
           => (KeyedNamesKept /\ NoEmailNamesKept)]_vars

\* the three steps one by one: each of them overwrites a name
C23_BackfillKeepsNames == [][BackfillStep => KeyedNamesKept]_vars
C23_FoldKeepsNames == [][FoldStep => KeyedNamesKept]_vars
C23_AccumulatorKeepsNames == [][AccumulatorStep => NoEmailNamesKept]_vars

\* what the backfill and the fold do keep: the names of a keyed row that has
\* both of them
C23_CompleteNamesKept ==
    [][\A n \in DOMAIN merged_customers :
           (/\ BackfillStep \/ FoldStep \/ AccumulatorStep
            /\ HasBothNames(merged_customers[n].row))
               => /\ n \in DOMAIN merged_customers'
                  /\ NamesKeptIn(merged_customers[n].row,
                                 merged_customers'[n].row)]_vars

\* ---------------------------------------------------------------------
\* C24: the rows of the existing file in the output

\* the rows of the existing file whose lower-cased email is the valid key k
ExistingRowsWithKey(k) ==
    {n \in DOMAIN existing_rows :
        ValidEmailRow(existing_rows[n]) /\ lower(existing_rows[n]["EMAIL"]) = k}
\* the rows of the existing file whose email is not valid, the empty ones
\* included
ExistingRowsWithoutKey ==
    {n \in DOMAIN existing_rows : ~ValidEmailRow(existing_rows[n])}
\* the rows of the output under key k, and those under the sentinel
OutputRowsWithKey(k) == {n \in DOMAIN output : lower(output[n]["EMAIL"]) = k}
OutputNoEmailRows == {n \in DOMAIN output : output[n]["EMAIL"] = NO_EMAIL}

\* C24: every row of the existing file is represented by its own row of the
\* output, a keyed row when its lower-cased email is valid and else a separate
\* NO EMAIL row: none is dropped and no two are collapsed into one, so the
\* output has as many rows under a key, and as many NO EMAIL rows, as the
\* existing file has rows for them.
C24_EveryExistingRowHasItsOwnRow ==
    pc = "done" =>
        /\ \A n \in DOMAIN existing_rows :
              ValidEmailRow(existing_rows[n]) =>
                  Cardinality(OutputRowsWithKey(lower(existing_rows[n]["EMAIL"])))
                      >= Cardinality(ExistingRowsWithKey(lower(existing_rows[n]["EMAIL"])))
        /\ Cardinality(OutputNoEmailRows) >= Cardinality(ExistingRowsWithoutKey)

\* the two halves of it: no row is dropped, no two rows are collapsed
C24_NoExistingRowDropped ==
    pc = "done" =>
        /\ \A n \in DOMAIN existing_rows :
              ValidEmailRow(existing_rows[n]) =>
                  OutputRowsWithKey(lower(existing_rows[n]["EMAIL"])) # {}
        /\ ExistingRowsWithoutKey # {} => OutputNoEmailRows # {}
C24_NoExistingRowsCollapsed ==
    pc = "done" =>
        \A n \in DOMAIN existing_rows :
            ValidEmailRow(existing_rows[n]) =>
                Cardinality(OutputRowsWithKey(lower(existing_rows[n]["EMAIL"])))
                    >= Cardinality(ExistingRowsWithKey(lower(existing_rows[n]["EMAIL"])))

\* what the load keeps: one row for each valid key of the existing file, the
\* last row of the file that has the key, and a NO EMAIL row of its own for
\* each row of the existing file with an email that is there and not valid;
\* a row with an empty email is in neither.
C24_KeysAndInvalidRowsKept ==
    pc = "done" =>
        /\ \A n \in DOMAIN existing_rows :
              ValidEmailRow(existing_rows[n]) =>
                  /\ Cardinality(OutputRowsWithKey(lower(existing_rows[n]["EMAIL"]))) = 1
                  /\ \E m \in OutputRowsWithKey(lower(existing_rows[n]["EMAIL"])) :
                        /\ output[m]["EMAIL"]
                               = KeyedRowOf(lower(existing_rows[n]["EMAIL"]))["EMAIL"]
                        /\ output[m]["CAR"]
                               = KeyedRowOf(lower(existing_rows[n]["EMAIL"]))["CAR"]
        /\ Cardinality(OutputNoEmailRows) >= Len(ExistingNoEmailRows)
        /\ (new_rows = <<>>) =>
               Len(output) = Len(merged_customers) + Len(ExistingNoEmailRows)

====
